---------------------------- MODULE Spec2Model ----------------------------
(***************************************************************************)
(* Verification model of the wall-street-SIMS engine (package wallstreet): *)
(* Allocation validation, the regime Markov chain, the event engine, the   *)
(* return generator, the rules-based risk committee and the short seller.  *)
(*                                                                         *)
(* Units.  Percentage weights are integers in hundredths of a percent      *)
(* (20.0% = 2000, the 0.01 tolerance = 1).  Returns are integers in units  *)
(* of 1e-7 (0.30 = 3000000).  Probability weights are integers in          *)
(* hundredths.  A draw of random.Random is a nondeterministic choice; the  *)
(* calls made on the generator are logged in rngLog.                       *)
(***************************************************************************)
EXTENDS Integers, Sequences, FiniteSets, TLC

VARIABLES
    pc,            \* position of the operation under analysis
    inWeights,     \* Allocation: the weight map handed to the constructor
    allocStatus,   \* Allocation: "none" | "accepted" | "rejected"
    allocReason,   \* Allocation: which check raised
    allocWeights,  \* Allocation: the stored weights of an accepted object
    rngLog,        \* calls made on the generator by the last operation
    macroIn,       \* MacroState passed to the last operation
    macro,         \* MacroState produced by advance_macro_state
    selected,      \* generate_weekly_events: templates drawn by rng.choices
    events,        \* list of event template indices (result / input)
    zIn,           \* correlated normals handed to the return computation
    genStatus,     \* generate_sector_returns: "none" | "ok" | "KeyError"
    genReturns,    \* generate_sector_returns: the local dict `returns`
    baseIn,        \* apply_events: base_returns argument
    adjusted,      \* apply_events: result
    riskIn,        \* evaluate: arguments
    riskOut,       \* evaluate: result and intermediate scores
    shortIn,       \* analyze: arguments and the state of the generator
    setOrder,      \* per process: iteration order of _CYCLICAL_SECTORS
    thesis,        \* per process: result of ShortSellerAgent.analyze
    rivalIn,       \* RivalPM.decide: strategy, arguments, generator draws
    rivalOut,      \* RivalPM.decide: normalized weights and the Allocation
    scoreIn,       \* compute_cagr / compute_scorecard: arguments
    scoreOut,      \* compute_cagr / compute_scorecard: result
    career,        \* CareerProfile (or the profile handed to compute_title)
    seasons,       \* scorecards of the seasons played so far, in order
    title,         \* compute_title: result
    world,         \* per run of a week: allocation, generator position, result
    game_state,    \* GameState of the weekly loop
    competition,   \* GameCompetitionLayer: rival value, values, last result
    db,            \* the SQLite file: games rows, the player's career row
    session,       \* per run of run_game: position and local variables
    bridge,        \* WebSocketBridge and the tasks of play_game_ws
    client,        \* the browser: connection, frames sent, output received
    game           \* the game thread behind the bridge

vars == <<pc, inWeights, allocStatus, allocReason, allocWeights, rngLog,
          macroIn, macro, selected, events, zIn, genStatus, genReturns,
          baseIn, adjusted, riskIn, riskOut, shortIn, setOrder, thesis,
          rivalIn, rivalOut, scoreIn, scoreOut, career, seasons, title,
          world, game_state, competition, db, session, bridge, client,
          game>>

allocVars  == <<inWeights, allocStatus, allocReason, allocWeights>>
macroVars  == <<macroIn, macro>>
eventVars  == <<selected, events>>
returnVars == <<zIn, genStatus, genReturns, baseIn, adjusted>>
riskVars   == <<riskIn, riskOut>>
shortVars  == <<shortIn, setOrder, thesis>>
rivalVars  == <<rivalIn, rivalOut>>
scoreVars  == <<scoreIn, scoreOut>>
careerVars == <<career, seasons, title>>
marketVars == <<world>>
weekVars   == <<game_state, competition>>
sessionVars == <<db, session>>
bridgeVars == <<bridge, client, game>>
loopVars   == <<marketVars, weekVars, sessionVars, bridgeVars>>
seasonVars == <<rivalVars, scoreVars, careerVars, loopVars>>

-----------------------------------------------------------------------------
(* Enumerations: models/enums.py *)

\* Sector members in declaration order (iteration order of `for s in Sector`)
SectorOrder == <<"Tech", "Energy", "Financials", "Consumer Staples",
                 "Consumer Discretionary", "Industrials", "Healthcare">>

Sector == {SectorOrder[i] : i \in 1..Len(SectorOrder)}

Regime == {"bull", "bear", "recession", "recovery"}

VolatilityState == {"low", "normal", "high", "crisis"}

RateDirection == {"rising", "stable", "falling"}

\* models/market.py: MacroState (week: Field(ge=0, le=26))
MaxWeek == 1

MacroState == [regime : Regime, volatility_state : VolatilityState,
               rate_direction : RateDirection, week : 0..MaxWeek]

\* config.py
MAX_GROSS_EXPOSURE == 20000

MAX_SHORT_PER_SECTOR == -5000

MIN_WEEKLY_RETURN == -3000000

MAX_WEEKLY_RETURN == 3000000

INITIAL_REGIME == "bull"

INITIAL_VOL_STATE == "normal"

INITIAL_RATE_DIR == "stable"

-----------------------------------------------------------------------------
(* Generic helpers *)

Abs(x) == IF x < 0 THEN -x ELSE x

Max2(a, b) == IF a >= b THEN a ELSE b

Min2(a, b) == IF a <= b THEN a ELSE b

RECURSIVE SumOver(_, _)
SumOver(f, S) ==
    IF S = {} THEN 0
    ELSE LET s == CHOOSE x \in S : TRUE
         IN f[s] + SumOver(f, S \ {s})

RECURSIVE SumAbsOver(_, _)
SumAbsOver(f, S) ==
    IF S = {} THEN 0
    ELSE LET s == CHOOSE x \in S : TRUE
         IN Abs(f[s]) + SumAbsOver(f, S \ {s})

NoValue == <<>>

-----------------------------------------------------------------------------
(* models/portfolio.py: Allocation *)

\* sum(self.weights.values())
NetSum(w) == SumOver(w, DOMAIN w)

\* sum(abs(w) for w in self.weights.values())
GrossSum(w) == SumAbsOver(w, DOMAIN w)

\* The mutant drops the gross-exposure check.
validate_weights_nogross(w) ==
    IF NetSum(w) < -1 \/ NetSum(w) > 10001 THEN "sum"
    ELSE IF \E s \in DOMAIN w : w[s] < MAX_SHORT_PER_SECTOR THEN "short"
    ELSE IF DOMAIN w # Sector THEN "keys"
    ELSE "ok"

\* Allocation.validate_weights: the checks in source order; the result names
\* the check that raises ValueError, "ok" when the object is returned.
validate_weights(w) ==
    IF NetSum(w) < -1 \/ NetSum(w) > 10001 THEN "sum"
    ELSE IF \E s \in DOMAIN w : w[s] < MAX_SHORT_PER_SECTOR THEN "short"
    ELSE IF GrossSum(w) > MAX_GROSS_EXPOSURE + 1 THEN "gross"
    ELSE IF DOMAIN w # Sector THEN "keys"
    ELSE "ok"

\* Allocation(weights=w): pydantic first validates the field type
\* dict[Sector, float] (a key that is no Sector member is rejected), then
\* runs the mode="after" validator; the stored field is the supplied map.
NewAllocation(w) ==
    IF ~(DOMAIN w \subseteq Sector)
    THEN [status |-> "rejected", reason |-> "type", weights |-> NoValue]
    ELSE IF validate_weights(w) # "ok"
    THEN [status |-> "rejected", reason |-> validate_weights(w),
          weights |-> NoValue]
    ELSE [status |-> "accepted", reason |-> "ok", weights |-> w]

\* Allocation.as_fractions is w/100; the model keeps hundredths of a percent.
\* Allocation.gross_exposure (x 10000)
gross_exposure(w) == GrossSum(w)

\* Allocation.cash_weight (x 10000)
cash_weight(w) == 10000 - NetSum(w)

\* Allocation.has_shorts
has_shorts(w) == \E s \in DOMAIN w : w[s] < 0

\* cli/app.py: _equal_allocation builds {s: 20.0 for s in Sector}
EqualWeights == [s \in Sector |-> 2000]

_equal_allocation == NewAllocation(EqualWeights)

-----------------------------------------------------------------------------
(* Values of the variables an operation does not use *)

AllocIdle ==
    /\ inWeights = NoValue
    /\ allocStatus = "none"
    /\ allocReason = "none"
    /\ allocWeights = NoValue

MacroIdle ==
    /\ macroIn = NoValue
    /\ macro = NoValue

EventIdle ==
    /\ selected = <<>>
    /\ events = <<>>

ReturnIdle ==
    /\ zIn = NoValue
    /\ genStatus = "none"
    /\ genReturns = NoValue
    /\ baseIn = NoValue
    /\ adjusted = NoValue

RiskIdle ==
    /\ riskIn = NoValue
    /\ riskOut = NoValue

ShortIdle ==
    /\ shortIn = NoValue
    /\ setOrder = NoValue
    /\ thesis = NoValue

RivalIdle ==
    /\ rivalIn = NoValue
    /\ rivalOut = NoValue

ScoreIdle ==
    /\ scoreIn = NoValue
    /\ scoreOut = NoValue

CareerIdle ==
    /\ career = NoValue
    /\ seasons = <<>>
    /\ title = "none"

MarketIdle == world = NoValue

WeekIdle == game_state = NoValue /\ competition = NoValue

SessionIdle == db = NoValue /\ session = NoValue

BridgeIdle == bridge = NoValue /\ client = NoValue /\ game = NoValue

LoopIdle == MarketIdle /\ WeekIdle /\ SessionIdle /\ BridgeIdle

SeasonIdle == RivalIdle /\ ScoreIdle /\ CareerIdle /\ LoopIdle

-----------------------------------------------------------------------------
(* Specification SpecAlloc: constructing Allocation objects *)

\* The five sectors that the return tables, the critique pools, the event
\* catalog and the tests name (all of Sector but the two newest members).
LegacySectors == {"Tech", "Energy", "Financials", "Consumer Staples",
                  "Industrials"}

\* Weights tried per sector; together they reach both sides of every limit
\* of validate_weights, tolerance included.
WeightChoices ==
    <<{-5001, -5000, 0, 5000},     \* Tech
      {-5000, -1, 0, 5000},        \* Energy
      {0, 1, 5000},                \* Financials
      {-1, 0, 1, 5000},            \* Consumer Staples
      {0, 1, 2000},                \* Consumer Discretionary
      {-1, 0},                     \* Industrials
      {0, 1}>>                     \* Healthcare

SectorIndex(s) == CHOOSE i \in 1..Len(SectorOrder) : SectorOrder[i] = s

WeightTuples ==
    WeightChoices[1] \X WeightChoices[2] \X WeightChoices[3] \X
    WeightChoices[4] \X WeightChoices[5] \X WeightChoices[6] \X
    WeightChoices[7]

MapsOver(K) == {[s \in K |-> t[SectorIndex(s)]] : t \in WeightTuples}

\* A map with a key that is no member of Sector.
ForeignKeyMaps ==
    {[s \in LegacySectors \cup {"Utilities"} |->
        IF s = "Utilities" THEN 0 ELSE m[s]] : m \in MapsOver(LegacySectors)}

CandidateWeights ==
    MapsOver(Sector) \cup MapsOver(LegacySectors)
        \cup MapsOver(Sector \ {"Tech"}) \cup MapsOver({})
        \cup ForeignKeyMaps

InitAlloc ==
    /\ pc = "alloc_input"
    /\ inWeights \in CandidateWeights
    /\ allocStatus = "none"
    /\ allocReason = "none"
    /\ allocWeights = NoValue
    /\ rngLog = <<>>
    /\ MacroIdle /\ EventIdle /\ ReturnIdle /\ RiskIdle /\ ShortIdle
    /\ SeasonIdle

\* Allocation(weights=inWeights)
Construct ==
    /\ pc = "alloc_input"
    /\ LET a == NewAllocation(inWeights)
       IN /\ allocStatus' = a.status
          /\ allocReason' = a.reason
          /\ allocWeights' = a.weights
    /\ pc' = "constructed"
    /\ UNCHANGED <<seasonVars,
                   inWeights, rngLog, macroVars, eventVars, returnVars,
                   riskVars, shortVars>>

\* run_game, cli/app.py:138: the placeholder allocation of a week
EqualAllocation ==
    /\ pc = "alloc_input"
    /\ inWeights' = EqualWeights
    /\ LET a == _equal_allocation
       IN /\ allocStatus' = a.status
          /\ allocReason' = a.reason
          /\ allocWeights' = a.weights
    /\ pc' = "equal_built"
    /\ UNCHANGED <<seasonVars,
                   rngLog, macroVars, eventVars, returnVars, riskVars,
                   shortVars>>

NextAlloc == Construct \/ EqualAllocation

SpecAlloc == InitAlloc /\ [][NextAlloc]_vars

C1_WitnessGross ==
    /\ pc = "constructed"
    /\ allocStatus = "rejected"
    /\ allocReason = "gross"

\* C2: the allocation giving 20% to every member of Sector is accepted and
\* its weights sum to 100% (cash fraction 0), so the weekly placeholder
\* allocation always passes validation.
C2_EqualAllocationValid ==
    pc = "equal_built" =>
        /\ allocStatus = "accepted"
        /\ NetSum(allocWeights) = 10000
        /\ cash_weight(allocWeights) = 0

-----------------------------------------------------------------------------
(* market_engine/regime.py: the regime Markov chain *)

\* Tables as sequences of <<value, weight>> in dict order, weights x 100.
REGIME_TRANSITION ==
    [bull      |-> <<<<"bull", 60>>, <<"bear", 20>>, <<"recession", 5>>,
                     <<"recovery", 15>>>>,
     bear      |-> <<<<"bull", 10>>, <<"bear", 50>>, <<"recession", 30>>,
                     <<"recovery", 10>>>>,
     recession |-> <<<<"bull", 5>>, <<"bear", 15>>, <<"recession", 50>>,
                     <<"recovery", 30>>>>,
     recovery  |-> <<<<"bull", 35>>, <<"bear", 10>>, <<"recession", 5>>,
                     <<"recovery", 50>>>>]

RATE_DIRECTION_BY_REGIME ==
    [bull      |-> <<<<"rising", 50>>, <<"stable", 35>>, <<"falling", 15>>>>,
     bear      |-> <<<<"rising", 20>>, <<"stable", 30>>, <<"falling", 50>>>>,
     recession |-> <<<<"rising", 5>>, <<"stable", 25>>, <<"falling", 70>>>>,
     recovery  |-> <<<<"rising", 35>>, <<"stable", 45>>, <<"falling", 20>>>>]

VOL_STATE_BY_REGIME ==
    [bull      |-> <<<<"low", 40>>, <<"normal", 45>>, <<"high", 12>>,
                     <<"crisis", 3>>>>,
     bear      |-> <<<<"low", 5>>, <<"normal", 30>>, <<"high", 45>>,
                     <<"crisis", 20>>>>,
     recession |-> <<<<"low", 2>>, <<"normal", 18>>, <<"high", 40>>,
                     <<"crisis", 40>>>>,
     recovery  |-> <<<<"low", 25>>, <<"normal", 50>>, <<"high", 20>>,
                     <<"crisis", 5>>>>]

\* itertools.accumulate(weights)[i]
RECURSIVE CumWeight(_, _)
CumWeight(options, i) ==
    IF i = 0 THEN 0 ELSE options[i][2] + CumWeight(options, i - 1)

\* _weighted_choice: rng.choices(keys, weights=weights, k=1)[0], i.e.
\* keys[bisect(cum_weights, random() * total, 0, n - 1)].  The draw u stands
\* for random() in [u/100, (u+1)/100); every row sums to 100.
weighted_choice(options, u) ==
    LET n == Len(options)
        total == CumWeight(options, n)
        hits == {i \in 1..n : CumWeight(options, i) * 100 > u * total}
        idx == IF hits = {} THEN n
               ELSE CHOOSE i \in hits : \A j \in hits : i <= j
    IN options[idx][1]

\* A call rng.choices(population, weights, k): the table and row the weights
\* come from, the outcome u of the draw, and k.
DrawK(table, key, u, k) ==
    [fn |-> "choices", table |-> table, key |-> key, u |-> u, k |-> k]

Draw(table, key, u) == DrawK(table, key, u, 1)

\* The mutant keys the rate-direction draw by the departing regime.
advance_macro_state_rate_departing(current, u1, u2, u3) ==
    LET new_regime == weighted_choice(REGIME_TRANSITION[current.regime], u1)
        new_rate == weighted_choice(RATE_DIRECTION_BY_REGIME[current.regime], u2)
        new_vol == weighted_choice(VOL_STATE_BY_REGIME[new_regime], u3)
    IN [state |-> [regime |-> new_regime, volatility_state |-> new_vol,
                   rate_direction |-> new_rate, week |-> current.week],
        log |-> <<Draw("REGIME_TRANSITION", current.regime, u1),
                  Draw("RATE_DIRECTION_BY_REGIME", current.regime, u2),
                  Draw("VOL_STATE_BY_REGIME", new_regime, u3)>>]

\* The mutant keys the volatility draw by the departing regime.
advance_macro_state_vol_departing(current, u1, u2, u3) ==
    LET new_regime == weighted_choice(REGIME_TRANSITION[current.regime], u1)
        new_rate == weighted_choice(RATE_DIRECTION_BY_REGIME[new_regime], u2)
        new_vol == weighted_choice(VOL_STATE_BY_REGIME[current.regime], u3)
    IN [state |-> [regime |-> new_regime, volatility_state |-> new_vol,
                   rate_direction |-> new_rate, week |-> current.week],
        log |-> <<Draw("REGIME_TRANSITION", current.regime, u1),
                  Draw("RATE_DIRECTION_BY_REGIME", new_regime, u2),
                  Draw("VOL_STATE_BY_REGIME", current.regime, u3)>>]

\* advance_macro_state: the new state and the generator calls, in order.
advance_macro_state(current, u1, u2, u3) ==
    LET new_regime == weighted_choice(REGIME_TRANSITION[current.regime], u1)
        new_rate == weighted_choice(RATE_DIRECTION_BY_REGIME[new_regime], u2)
        new_vol == weighted_choice(VOL_STATE_BY_REGIME[new_regime], u3)
    IN [state |-> [regime |-> new_regime, volatility_state |-> new_vol,
                   rate_direction |-> new_rate, week |-> current.week],
        log |-> <<Draw("REGIME_TRANSITION", current.regime, u1),
                  Draw("RATE_DIRECTION_BY_REGIME", new_regime, u2),
                  Draw("VOL_STATE_BY_REGIME", new_regime, u3)>>]

-----------------------------------------------------------------------------
(* Specification SpecMacro: advance_macro_state on every MacroState *)

\* Draws tried (hundredths of the unit interval): at least one point inside
\* every interval of every row of the three tables.
DrawPoints == {1, 9, 28, 40, 47, 65, 84, 89, 96, 98}

InitMacro ==
    /\ pc = "macro_input"
    /\ macro \in MacroState
    /\ macroIn = NoValue
    /\ rngLog = <<>>
    /\ AllocIdle /\ EventIdle /\ ReturnIdle /\ RiskIdle /\ ShortIdle
    /\ SeasonIdle

AdvanceMacro ==
    /\ pc = "macro_input"
    /\ \E u1, u2, u3 \in DrawPoints :
         LET r == advance_macro_state(macro, u1, u2, u3)
         IN /\ macro' = r.state
            /\ rngLog' = r.log
    /\ macroIn' = macro
    /\ pc' = "advanced"
    /\ UNCHANGED <<seasonVars,
                   allocVars, eventVars, returnVars, riskVars, shortVars>>

NextMacro == AdvanceMacro

SpecMacro == InitMacro /\ [][NextMacro]_vars

\* The value a row gives for draw u: the entry whose cumulative interval
\* [sum of earlier weights, that sum + own weight) contains u.
RowValueAt(row, u, v) ==
    \E i \in 1..Len(row) :
        /\ row[i][1] = v
        /\ CumWeight(row, i - 1) <= u
        /\ u < CumWeight(row, i)

\* C6: advance_macro_state makes exactly three draws, in the order regime,
\* rate direction, volatility state; the regime comes from the row of the
\* current regime, rate direction and volatility from the rows of the newly
\* drawn regime; the week of the result is the week of the input.
C6_ThreeDrawsKeyedByNewRegime ==
    pc = "advanced" =>
        /\ Len(rngLog) = 3
        /\ rngLog[1].table = "REGIME_TRANSITION"
        /\ rngLog[1].key = macroIn.regime
        /\ RowValueAt(REGIME_TRANSITION[macroIn.regime], rngLog[1].u,
                      macro.regime)
        /\ rngLog[2].table = "RATE_DIRECTION_BY_REGIME"
        /\ rngLog[2].key = macro.regime
        /\ RowValueAt(RATE_DIRECTION_BY_REGIME[macro.regime], rngLog[2].u,
                      macro.rate_direction)
        /\ rngLog[3].table = "VOL_STATE_BY_REGIME"
        /\ rngLog[3].key = macro.regime
        /\ RowValueAt(VOL_STATE_BY_REGIME[macro.regime], rngLog[3].u,
                      macro.volatility_state)
        /\ macro.week = macroIn.week

\* C6 witness: a transition that changes the regime, where the rows of the
\* departing and of the new regime give different answers for the draws.
C6_Witness ==
    /\ pc = "advanced"
    /\ macroIn.regime = "recession"
    /\ macro.regime = "bull"
    /\ macroIn.week = 1
    /\ macro.rate_direction = "rising"
    /\ rngLog[2].u = 28
    /\ macro.volatility_state = "low"
    /\ rngLog[3].u = 9

\* C7 as stated: advance_macro_state never produces regime bull together with
\* volatility state crisis.
C7_NoBullCrisis ==
    pc = "advanced" =>
        ~(macro.regime = "bull" /\ macro.volatility_state = "crisis")

\* C7 amended: regime bull with volatility crisis is produced only when the
\* volatility draw falls in the crisis share (weight 0.03, the last 3
\* hundredths) of the bull row of VOL_STATE_BY_REGIME, whatever the departing
\* regime was.
C7_BullCrisisOnlyInCrisisShare ==
    pc = "advanced" /\ macro.regime = "bull"
                    /\ macro.volatility_state = "crisis"
        => rngLog[3].u >= 97

\* C7 witness: a week that arrives in bull from another regime with crisis
\* volatility.
C7_Witness ==
    /\ pc = "advanced"
    /\ macroIn.regime = "bear"
    /\ macro.regime = "bull"
    /\ macro.volatility_state = "crisis"

-----------------------------------------------------------------------------
(* event_engine/catalog.py and event_engine/generator.py *)

\* The 20 templates in list order; effects x 1e7 in dict order, regime
\* weights x 10.
EVENT_CATALOG ==
    <<
      [name |-> "Oil Price Spike",
       sector_effects |-> <<<<"Energy", 600000>>, <<"Tech", -200000>>,
                           <<"Consumer Staples", -300000>>,
                           <<"Industrials", -400000>>,
                           <<"Financials", -100000>>>>,
       regime_weights |-> [bull |-> 3, bear |-> 8, recession |-> 5, recovery |-> 4]],
      [name |-> "Tech Earnings Miss",
       sector_effects |-> <<<<"Tech", -800000>>, <<"Financials", -200000>>,
                           <<"Energy", 0>>, <<"Consumer Staples", -100000>>,
                           <<"Industrials", -100000>>>>,
       regime_weights |-> [bull |-> 4, bear |-> 7, recession |-> 9, recovery |-> 3]],
      [name |-> "Banking Crisis Fears",
       sector_effects |-> <<<<"Financials", -1000000>>, <<"Tech", -300000>>,
                           <<"Energy", -200000>>,
                           <<"Consumer Staples", -300000>>,
                           <<"Industrials", -200000>>>>,
       regime_weights |-> [bull |-> 2, bear |-> 6, recession |-> 10, recovery |-> 2]],
      [name |-> "Consumer Confidence Plunge",
       sector_effects |-> <<<<"Consumer Staples", -700000>>,
                           <<"Tech", -200000>>, <<"Financials", -200000>>,
                           <<"Energy", -100000>>,
                           <<"Industrials", -200000>>>>,
       regime_weights |-> [bull |-> 2, bear |-> 7, recession |-> 8, recovery |-> 3]],
      [name |-> "Supply Chain Disruption",
       sector_effects |-> <<<<"Industrials", -600000>>,
                           <<"Consumer Staples", -400000>>,
                           <<"Tech", -300000>>, <<"Energy", 200000>>,
                           <<"Financials", -100000>>>>,
       regime_weights |-> [bull |-> 3, bear |-> 5, recession |-> 7, recovery |-> 4]],
      [name |-> "Regulatory Crackdown",
       sector_effects |-> <<<<"Tech", -600000>>, <<"Financials", -200000>>,
                           <<"Energy", 0>>, <<"Consumer Staples", 100000>>,
                           <<"Industrials", 0>>>>,
       regime_weights |-> [bull |-> 5, bear |-> 4, recession |-> 3, recovery |-> 6]],
      [name |-> "Geopolitical Tensions",
       sector_effects |-> <<<<"Energy", 400000>>, <<"Industrials", -500000>>,
                           <<"Tech", -300000>>,
                           <<"Consumer Staples", -300000>>,
                           <<"Financials", -300000>>>>,
       regime_weights |-> [bull |-> 3, bear |-> 6, recession |-> 7, recovery |-> 3]],
      [name |-> "Inflation Surprise",
       sector_effects |-> <<<<"Financials", -400000>>, <<"Tech", -500000>>,
                           <<"Consumer Staples", -300000>>,
                           <<"Energy", 300000>>,
                           <<"Industrials", -200000>>>>,
       regime_weights |-> [bull |-> 4, bear |-> 7, recession |-> 3, recovery |-> 5]],
      [name |-> "Currency Crisis",
       sector_effects |-> <<<<"Consumer Staples", -500000>>,
                           <<"Tech", -200000>>, <<"Financials", -400000>>,
                           <<"Energy", 300000>>,
                           <<"Industrials", -300000>>>>,
       regime_weights |-> [bull |-> 2, bear |-> 5, recession |-> 8, recovery |-> 2]],
      [name |-> "Cyber Attack",
       sector_effects |-> <<<<"Tech", -500000>>, <<"Financials", -600000>>,
                           <<"Energy", -100000>>,
                           <<"Consumer Staples", -200000>>,
                           <<"Industrials", -100000>>>>,
       regime_weights |-> [bull |-> 3, bear |-> 4, recession |-> 5, recovery |-> 3]],
      [name |-> "Tech Breakthrough",
       sector_effects |-> <<<<"Tech", 800000>>, <<"Financials", 200000>>,
                           <<"Energy", 0>>, <<"Consumer Staples", 100000>>,
                           <<"Industrials", 200000>>>>,
       regime_weights |-> [bull |-> 7, bear |-> 2, recession |-> 1, recovery |-> 6]],
      [name |-> "Stimulus Package",
       sector_effects |-> <<<<"Industrials", 600000>>,
                           <<"Consumer Staples", 400000>>,
                           <<"Financials", 300000>>, <<"Tech", 200000>>,
                           <<"Energy", 300000>>>>,
       regime_weights |-> [bull |-> 3, bear |-> 4, recession |-> 8, recovery |-> 7]],
      [name |-> "Energy Discovery",
       sector_effects |-> <<<<"Energy", 900000>>, <<"Industrials", 300000>>,
                           <<"Tech", 0>>, <<"Consumer Staples", 100000>>,
                           <<"Financials", 100000>>>>,
       regime_weights |-> [bull |-> 5, bear |-> 3, recession |-> 2, recovery |-> 5]],
      [name |-> "Rate Cut Rally",
       sector_effects |-> <<<<"Tech", 500000>>, <<"Consumer Staples", 400000>>,
                           <<"Financials", -200000>>,
                           <<"Industrials", 300000>>,
                           <<"Energy", 100000>>>>,
       regime_weights |-> [bull |-> 2, bear |-> 5, recession |-> 7, recovery |-> 6]],
      [name |-> "Merger Wave",
       sector_effects |-> <<<<"Financials", 600000>>, <<"Tech", 200000>>,
                           <<"Industrials", 200000>>,
                           <<"Consumer Staples", 100000>>,
                           <<"Energy", 100000>>>>,
       regime_weights |-> [bull |-> 7, bear |-> 2, recession |-> 1, recovery |-> 5]],
      [name |-> "Consumer Spending Boom",
       sector_effects |-> <<<<"Consumer Staples", 700000>>, <<"Tech", 200000>>,
                           <<"Financials", 200000>>, <<"Industrials", 100000>>,
                           <<"Energy", 100000>>>>,
       regime_weights |-> [bull |-> 6, bear |-> 1, recession |-> 1, recovery |-> 5]],
      [name |-> "Sector Rotation",
       sector_effects |-> <<<<"Tech", -400000>>, <<"Energy", 300000>>,
                           <<"Financials", 200000>>,
                           <<"Consumer Staples", 100000>>,
                           <<"Industrials", 300000>>>>,
       regime_weights |-> [bull |-> 4, bear |-> 5, recession |-> 3, recovery |-> 4]],
      [name |-> "Green Energy Push",
       sector_effects |-> <<<<"Energy", -500000>>, <<"Tech", 300000>>,
                           <<"Industrials", 400000>>,
                           <<"Consumer Staples", 100000>>,
                           <<"Financials", 0>>>>,
       regime_weights |-> [bull |-> 5, bear |-> 3, recession |-> 3, recovery |-> 6]],
      [name |-> "Flash Crash",
       sector_effects |-> <<<<"Tech", -400000>>, <<"Energy", -300000>>,
                           <<"Financials", -500000>>,
                           <<"Consumer Staples", -200000>>,
                           <<"Industrials", -300000>>>>,
       regime_weights |-> [bull |-> 3, bear |-> 5, recession |-> 4, recovery |-> 3]],
      [name |-> "Trade Deal Breakthrough",
       sector_effects |-> <<<<"Industrials", 500000>>, <<"Tech", 300000>>,
                           <<"Energy", 200000>>,
                           <<"Consumer Staples", 300000>>,
                           <<"Financials", 200000>>>>,
       regime_weights |-> [bull |-> 5, bear |-> 3, recession |-> 3, recovery |-> 7]]
    >>

\* Probability of [0, 1, 2] events per week, by volatility state (x 100)
EVENT_COUNT_WEIGHTS ==
    [low    |-> <<<<0, 60>>, <<1, 30>>, <<2, 10>>>>,
     normal |-> <<<<0, 45>>, <<1, 40>>, <<2, 15>>>>,
     high   |-> <<<<0, 25>>, <<1, 45>>, <<2, 30>>>>,
     crisis |-> <<<<0, 10>>, <<1, 40>>, <<2, 50>>>>]

\* Outcomes of rng.choices(catalog, weights=event_weights, k=num_events):
\* every sequence of num_events templates of positive weight for the regime.
SelectionOutcomes(regime, num_events) ==
    [1..num_events ->
        {i \in 1..Len(EVENT_CATALOG) :
            EVENT_CATALOG[i].regime_weights[regime] > 0}]

\* ShockEvent(template_name=..., week=macro_state.week); `template` is the
\* catalog position the description, effects and vol_impact are copied from.
ShockEvent(i, week) ==
    [template |-> i, template_name |-> EVENT_CATALOG[i].name, week |-> week]

\* The loop `for tmpl in selected: if tmpl.name not in seen: ...`
RECURSIVE Deduplicate(_, _, _)
Deduplicate(sel, i, seen) ==
    IF i > Len(sel) THEN <<>>
    ELSE IF EVENT_CATALOG[sel[i]].name \in seen
    THEN Deduplicate(sel, i + 1, seen)
    ELSE <<sel[i]>> \o Deduplicate(sel, i + 1,
                                   seen \cup {EVENT_CATALOG[sel[i]].name})

\* The mutant keeps every drawn template (no deduplication).
generate_weekly_events_keepall(macro_state, u, sel) ==
    LET num_events ==
            weighted_choice(EVENT_COUNT_WEIGHTS[macro_state.volatility_state], u)
        countDraw == Draw("EVENT_COUNT_WEIGHTS", macro_state.volatility_state, u)
        unique == sel
    IN IF num_events = 0
       THEN [events |-> <<>>, selected |-> <<>>, log |-> <<countDraw>>]
       ELSE [events |-> [k \in 1..Len(unique) |->
                            ShockEvent(unique[k], macro_state.week)],
             selected |-> sel,
             log |-> <<countDraw,
                       DrawK("EVENT_CATALOG", macro_state.regime, sel,
                             num_events)>>]

\* generate_weekly_events: u is the count draw, sel the outcome of the
\* selection call (used only when the count is not 0).
generate_weekly_events(macro_state, u, sel) ==
    LET num_events ==
            weighted_choice(EVENT_COUNT_WEIGHTS[macro_state.volatility_state], u)
        countDraw == Draw("EVENT_COUNT_WEIGHTS", macro_state.volatility_state, u)
        unique == Deduplicate(sel, 1, {})
    IN IF num_events = 0
       THEN [events |-> <<>>, selected |-> <<>>, log |-> <<countDraw>>]
       ELSE [events |-> [k \in 1..Len(unique) |->
                            ShockEvent(unique[k], macro_state.week)],
             selected |-> sel,
             log |-> <<countDraw,
                       DrawK("EVENT_CATALOG", macro_state.regime, sel,
                             num_events)>>]

-----------------------------------------------------------------------------
(* Specification SpecEvents: generate_weekly_events on every MacroState *)

InitEvents ==
    /\ pc = "events_input"
    /\ macroIn \in MacroState
    /\ macro = NoValue
    /\ rngLog = <<>>
    /\ AllocIdle /\ EventIdle /\ ReturnIdle /\ RiskIdle /\ ShortIdle
    /\ SeasonIdle

GenerateEvents ==
    /\ pc = "events_input"
    /\ \E u \in DrawPoints :
         LET n == weighted_choice(
                      EVENT_COUNT_WEIGHTS[macroIn.volatility_state], u)
         IN \E sel \in SelectionOutcomes(macroIn.regime, n) :
              LET r == generate_weekly_events(macroIn, u, sel)
              IN /\ events' = r.events
                 /\ selected' = r.selected
                 /\ rngLog' = r.log
    /\ pc' = "events_done"
    /\ UNCHANGED <<seasonVars,
                   allocVars, macroVars, returnVars, riskVars, shortVars>>

NextEvents == GenerateEvents

SpecEvents == InitEvents /\ [][NextEvents]_vars

\* C3: generate_weekly_events returns the drawn templates in draw order with
\* a later repeat of an already drawn name removed: 0, 1 or 2 events, no two
\* with the same name, a duplicate is dropped and not redrawn, and the
\* generator is called once for the count and at most once for the selection.
C3_EventsAreDedupedDraws ==
    pc = "events_done" =>
        LET n == Len(selected)
            name(k) == EVENT_CATALOG[selected[k]].name
        IN /\ n \in {0, 1, 2}
           /\ Len(events) \in {0, 1, 2}
           /\ \A i, j \in 1..Len(events) :
                 i # j => events[i].template_name # events[j].template_name
           /\ n = 0 => events = <<>>
           /\ n = 1 => Len(events) = 1 /\ events[1].template_name = name(1)
           /\ n = 2 /\ name(1) = name(2) =>
                 Len(events) = 1 /\ events[1].template_name = name(1)
           /\ n = 2 /\ name(1) # name(2) =>
                 /\ Len(events) = 2
                 /\ events[1].template_name = name(1)
                 /\ events[2].template_name = name(2)
           /\ \A k \in 1..Len(events) : events[k].week = macroIn.week
           /\ Len(rngLog) = (IF n = 0 THEN 1 ELSE 2)
           /\ rngLog[1].table = "EVENT_COUNT_WEIGHTS"
           /\ n > 0 => rngLog[2].table = "EVENT_CATALOG" /\ rngLog[2].k = n

\* C3 witness: a count of 2 whose two draws hit the same template yields a
\* single event.
C3_Witness ==
    /\ pc = "events_done"
    /\ Len(selected) = 2
    /\ selected[1] = selected[2]
    /\ Len(events) = 1
    /\ Len(rngLog) = 2

-----------------------------------------------------------------------------
(* market_engine/returns.py and market_engine/correlation.py *)

\* A dict literal given as a sequence of <<key, value>> pairs.
Dict(pairs) ==
    [k \in {pairs[i][1] : i \in 1..Len(pairs)} |->
        pairs[CHOOSE i \in 1..Len(pairs) : pairs[i][1] = k][2]]

\* SECTOR_PARAMS[regime][sector] = <<weekly_mean, weekly_std>> (x 1000)
SECTOR_PARAMS ==
    [bull |-> Dict(<<
        <<"Tech", <<20, 35>>>>, <<"Energy", <<12, 40>>>>,
        <<"Financials", <<15, 30>>>>, <<"Consumer Staples", <<10, 20>>>>,
        <<"Industrials", <<13, 25>>>>>>),
     bear |-> Dict(<<
        <<"Tech", <<-15, 45>>>>, <<"Energy", <<-10, 50>>>>,
        <<"Financials", <<-20, 40>>>>, <<"Consumer Staples", <<-5, 25>>>>,
        <<"Industrials", <<-12, 35>>>>>>),
     recession |-> Dict(<<
        <<"Tech", <<-25, 55>>>>, <<"Energy", <<-20, 60>>>>,
        <<"Financials", <<-30, 50>>>>, <<"Consumer Staples", <<-8, 30>>>>,
        <<"Industrials", <<-22, 45>>>>>>),
     recovery |-> Dict(<<
        <<"Tech", <<15, 40>>>>, <<"Energy", <<18, 45>>>>,
        <<"Financials", <<20, 35>>>>, <<"Consumer Staples", <<8, 22>>>>,
        <<"Industrials", <<16, 30>>>>>>)]

\* RATE_MODIFIERS[rate_direction][sector] =
\*     <<mean_additive (x 1000), std_multiplier (x 100)>>
RATE_MODIFIERS ==
    [rising |-> Dict(<<
        <<"Tech", <<-3, 110>>>>, <<"Energy", <<2, 100>>>>,
        <<"Financials", <<5, 90>>>>, <<"Consumer Staples", <<-2, 105>>>>,
        <<"Industrials", <<-1, 105>>>>>>),
     stable |-> Dict(<<
        <<"Tech", <<0, 100>>>>, <<"Energy", <<0, 100>>>>,
        <<"Financials", <<0, 100>>>>, <<"Consumer Staples", <<0, 100>>>>,
        <<"Industrials", <<0, 100>>>>>>),
     falling |-> Dict(<<
        <<"Tech", <<4, 95>>>>, <<"Energy", <<-1, 105>>>>,
        <<"Financials", <<-4, 110>>>>, <<"Consumer Staples", <<2, 95>>>>,
        <<"Industrials", <<1, 98>>>>>>)]

\* VOL_SCALING (x 100)
VOL_SCALING == [low |-> 60, normal |-> 100, high |-> 150, crisis |-> 220]

\* correlation.py: SECTOR_ORDER, the keys of sample_correlated_normals
SECTOR_ORDER == SectorOrder

\* max(MIN_WEEKLY_RETURN, min(MAX_WEEKLY_RETURN, r))
Clamp(r) == Max2(MIN_WEEKLY_RETURN, Min2(MAX_WEEKLY_RETURN, r))

\* The loop `for sector in Sector` of generate_sector_returns from position
\* i on, with the dict `returns` built so far.  A lookup of a sector that a
\* table does not hold raises KeyError and the loop is abandoned.
RECURSIVE SectorLoop(_, _, _, _)
SectorLoop(m, z_values, i, returns) ==
    IF i > Len(SectorOrder) THEN [status |-> "ok", returns |-> returns]
    ELSE LET sector == SectorOrder[i]
         IN IF \/ sector \notin DOMAIN SECTOR_PARAMS[m.regime]
               \/ sector \notin DOMAIN RATE_MODIFIERS[m.rate_direction]
            THEN [status |-> "KeyError", returns |-> returns]
            ELSE LET mean_base == SECTOR_PARAMS[m.regime][sector][1]
                     std_base == SECTOR_PARAMS[m.regime][sector][2]
                     mean_add == RATE_MODIFIERS[m.rate_direction][sector][1]
                     std_mult == RATE_MODIFIERS[m.rate_direction][sector][2]
                     vol_scale == VOL_SCALING[m.volatility_state]
                     effective_mean == (mean_base + mean_add) * 10000
                     effective_std == std_base * std_mult * vol_scale
                     raw_return == effective_mean
                                     + effective_std * z_values[sector]
                 IN SectorLoop(m, z_values, i + 1,
                        [s \in DOMAIN returns \cup {sector} |->
                            IF s = sector THEN Clamp(raw_return)
                            ELSE returns[s]])

\* generate_sector_returns(macro, rng), z_values being the result of
\* sample_correlated_normals (one standard-normal value per SECTOR_ORDER
\* entry, here whole numbers of standard deviations).
generate_sector_returns(m, z_values) == SectorLoop(m, z_values, 1, <<>>)

\* sample_correlated_normals draws len(SECTOR_ORDER) values with rng.gauss
GaussLog(regime) ==
    [i \in 1..Len(SECTOR_ORDER) |->
        [fn |-> "gauss", table |-> "CORRELATION_MATRICES", key |-> regime,
         u |-> i, k |-> 1]]

\* adjusted[sector] = adjusted.get(sector, 0.0) + effect, for the effects of
\* one event from position j on
RECURSIVE AddEffects(_, _, _)
AddEffects(adj, effects, j) ==
    IF j > Len(effects) THEN adj
    ELSE LET sector == effects[j][1]
             effect == effects[j][2]
             old == IF sector \in DOMAIN adj THEN adj[sector] ELSE 0
         IN AddEffects([s \in DOMAIN adj \cup {sector} |->
                           IF s = sector THEN old + effect ELSE adj[s]],
                       effects, j + 1)

\* the loop `for event in events` from position i on
RECURSIVE AddEvents(_, _, _)
AddEvents(adj, evs, i) ==
    IF i > Len(evs) THEN adj
    ELSE AddEvents(
             AddEffects(adj, EVENT_CATALOG[evs[i].template].sector_effects, 1),
             evs, i + 1)

\* The mutant returns the accumulated values without the final clamp.
apply_events_noclamp(base_returns, evs) ==
    AddEvents(base_returns, evs, 1)

\* apply_events(base_returns, events)
apply_events(base_returns, evs) ==
    LET acc == AddEvents(base_returns, evs, 1)
    IN [s \in DOMAIN acc |-> Clamp(acc[s])]

-----------------------------------------------------------------------------
(* Specification SpecReturns: generate_sector_returns and apply_events *)

\* Longest event list handed to apply_events
MaxEventList == 2

\* Correlated normals tried per sector, in standard deviations
ZChoices ==
    <<{-3, 0, 3}, {-3, 0, 3}, {-3, 3}, {-3, 3}, {-3, 3}, {-3, 3}, {-3, 3}>>

ZMaps ==
    {[s \in Sector |-> t[SectorIndex(s)]] :
        t \in ZChoices[1] \X ZChoices[2] \X ZChoices[3] \X ZChoices[4]
                \X ZChoices[5] \X ZChoices[6] \X ZChoices[7]}

\* Base returns tried per sector (x 1e7): near both bounds, in the middle
\* and, for a mapping that was not produced by the generator, outside.
BaseChoices ==
    <<{-2950000, 0, 2950000}, {-2500000, 2950000}, {100000},
      {0, 2950000}, {0}, {-4000000, 0}, {0}>>

BaseTuples ==
    BaseChoices[1] \X BaseChoices[2] \X BaseChoices[3] \X BaseChoices[4]
        \X BaseChoices[5] \X BaseChoices[6] \X BaseChoices[7]

BaseMaps ==
    {[s \in Sector |-> t[SectorIndex(s)]] : t \in BaseTuples}
        \cup {[s \in LegacySectors |-> t[SectorIndex(s)]] : t \in BaseTuples}

EventLists ==
    UNION {[1..n -> {ShockEvent(i, 1) : i \in 1..Len(EVENT_CATALOG)}] :
              n \in 0..MaxEventList}

InitReturns ==
    /\ \/ /\ pc = "gen_input"
          /\ macroIn \in MacroState
          /\ zIn \in ZMaps
          /\ baseIn = NoValue
          /\ events = <<>>
       \/ /\ pc = "apply_input"
          /\ macroIn = NoValue
          /\ zIn = NoValue
          /\ baseIn \in BaseMaps
          /\ events \in EventLists
    /\ macro = NoValue
    /\ selected = <<>>
    /\ genStatus = "none"
    /\ genReturns = NoValue
    /\ adjusted = NoValue
    /\ rngLog = <<>>
    /\ AllocIdle /\ RiskIdle /\ ShortIdle
    /\ SeasonIdle

GenerateReturns ==
    /\ pc = "gen_input"
    /\ LET r == generate_sector_returns(macroIn, zIn)
       IN /\ genStatus' = r.status
          /\ genReturns' = r.returns
    /\ rngLog' = GaussLog(macroIn.regime)
    /\ pc' = "generated"
    /\ UNCHANGED <<seasonVars,
                   allocVars, macroVars, eventVars, zIn, baseIn, adjusted,
                   riskVars, shortVars>>

ApplyEvents ==
    /\ pc = "apply_input"
    /\ adjusted' = apply_events(baseIn, events)
    /\ pc' = "applied"
    /\ UNCHANGED <<seasonVars,
                   allocVars, macroVars, eventVars, zIn, genStatus,
                   genReturns, baseIn, rngLog, riskVars, shortVars>>

NextReturns == GenerateReturns \/ ApplyEvents

SpecReturns == InitReturns /\ [][NextReturns]_vars

InBounds(r) == MIN_WEEKLY_RETURN <= r /\ r <= MAX_WEEKLY_RETURN

C4_WitnessGenerate ==
    /\ pc = "generated"
    /\ \E s \in DOMAIN genReturns : genReturns[s] = MIN_WEEKLY_RETURN
    /\ \E s \in DOMAIN genReturns : genReturns[s] = MAX_WEEKLY_RETURN
    /\ \E s \in DOMAIN genReturns : Abs(genReturns[s]) < MAX_WEEKLY_RETURN

\* C5: for every MacroState generate_sector_returns completes without error
\* and returns a mapping whose key set is Sector, and apply_events applied to
\* a mapping with that key set returns a mapping with that key set.
C5_AllSectorsPresent ==
    /\ pc = "generated" =>
          genStatus = "ok" /\ DOMAIN genReturns = Sector
    /\ pc = "applied" /\ DOMAIN baseIn = Sector =>
          DOMAIN adjusted = Sector

-----------------------------------------------------------------------------
(* agents/risk_committee.py: RulesBasedRiskCommittee.evaluate *)
(* Fractions are kept x 10000 (0.60 = 6000): as_fractions divides the      *)
(* percentage by 100 and the model's weights are hundredths of a percent.  *)

RECURSIVE SeqMax(_)
SeqMax(q) ==
    IF Len(q) = 1 THEN q[1] ELSE Max2(q[1], SeqMax(Tail(q)))

\* The mutant adds 2 instead of 3 for an extreme concentration.
ConcentrationPenalty_flat(abs_w) ==
    IF abs_w > 6000 THEN 2 ELSE IF abs_w > 4000 THEN 2 ELSE 0

\* Rule 1, one sector: abs_w > 0.60 adds 3, elif abs_w > 0.40 adds 2
ConcentrationPenalty(abs_w) ==
    IF abs_w > 6000 THEN 3 ELSE IF abs_w > 4000 THEN 2 ELSE 0

\* Rule 1, the loop over allocation.weights.items(): score added and
\* warnings appended from position i of the sector order on
RECURSIVE Rule1(_, _)
Rule1(w, i) ==
    IF i > Len(SectorOrder) THEN [add |-> 0, warnings |-> <<>>]
    ELSE LET sector == SectorOrder[i]
             p == ConcentrationPenalty(Abs(w[sector]))
             rest == Rule1(w, i + 1)
         IN [add |-> p + rest.add,
             warnings |->
                 (IF p = 3 THEN <<<<"CRITICAL concentration", sector>>>>
                  ELSE IF p = 2 THEN <<<<"WARNING concentration", sector>>>>
                  ELSE <<>>) \o rest.warnings]

\* Rule 2: sum(max(0.0, fracs.get(s, 0)) for s in (TECH, INDUSTRIALS, ENERGY))
long_cyclical(w) ==
    Max2(0, w["Tech"]) + Max2(0, w["Industrials"]) + Max2(0, w["Energy"])

Rule2(w, m) == m.regime = "recession" /\ long_cyclical(w) > 6000

\* Rule 3: high or crisis volatility and max(abs(w)) > 0.35
Rule3(w, m) ==
    /\ m.volatility_state \in {"high", "crisis"}
    /\ \E s \in DOMAIN w : Abs(w[s]) > 3500

\* Rule 4: rising rates and tech weight > 0.35
Rule4(w, m) == m.rate_direction = "rising" /\ w["Tech"] > 3500

\* Rule 5: weekly_values not empty, peak > 0 and (current - peak) / peak
\* below -0.15
Rule5(total_value, weekly_values) ==
    /\ weekly_values # <<>>
    /\ SeqMax(weekly_values) > 0
    /\ (total_value - SeqMax(weekly_values)) * 100
           < -15 * SeqMax(weekly_values)

\* Rule 6: all(abs(w) <= 0.30)
Rule6(w) == \A s \in DOMAIN w : Abs(w[s]) <= 3000

\* The mutant subtracts the bonus without the floor, so the floor is left
\* to the final clamp after the later penalties.
DiversificationBonus_nofloor(w, risk_score) ==
    IF Rule6(w) THEN risk_score - 1 ELSE risk_score

\* Rule 6, the assignment: risk_score = max(1, risk_score - 1), made before
\* rules 7-10 run
DiversificationBonus(w, risk_score) ==
    IF Rule6(w) THEN Max2(1, risk_score - 1) ELSE risk_score

\* The mutant tests the two gross thresholds with two ifs, so a gross
\* exposure above 1.80 collects both penalties.
LeveragePenalty_cumulative(w) ==
    (IF gross_exposure(w) > 18000 THEN 2 ELSE 0)
        + (IF gross_exposure(w) > 14000 THEN 1 ELSE 0)

\* Rule 7: gross > 1.80 adds 2, elif gross > 1.40 adds 1
LeveragePenalty(w) ==
    IF gross_exposure(w) > 18000 THEN 2
    ELSE IF gross_exposure(w) > 14000 THEN 1 ELSE 0

\* Rule 8: shorts during high or crisis volatility
Rule8(w, m) == has_shorts(w) /\ m.volatility_state \in {"high", "crisis"}

\* Rule 9: shorts in a bull regime
Rule9(w, m) == has_shorts(w) /\ m.regime = "bull"

\* Rule 10: cash_weight > 0.50
Rule10(w) == cash_weight(w) > 5000

\* The mutant leaves out the upper bound of the final clamp.
ClampScore_noupper(score) == Max2(1, score)

\* risk_score = min(10, max(1, risk_score))
ClampScore(score) == Min2(10, Max2(1, score))

Flag(b, tag) == IF b THEN <<<<tag, "">>>> ELSE <<>>

Bit(b) == IF b THEN 1 ELSE 0

\* evaluate(allocation, macro_state, portfolio, game_state): w are the
\* weights of the allocation, total_value is portfolio.total_value and
\* weekly_values is game_state.weekly_values.  The result carries the
\* sum added by rule 1, the score after rule 5, after rule 6, the sum added
\* by rules 7-10, the score before the final clamp, risk_score and the
\* warnings in order.
evaluate(w, m, total_value, weekly_values) ==
    LET r1 == Rule1(w, 1)
        score5 == 1 + r1.add
                    + (IF Rule2(w, m) THEN 2 ELSE 0)
                    + Bit(Rule3(w, m))
                    + Bit(Rule4(w, m))
                    + Bit(Rule5(total_value, weekly_values))
        score6 == DiversificationBonus(w, score5)
        late == LeveragePenalty(w) + Bit(Rule8(w, m)) + Bit(Rule9(w, m))
                    + Bit(Rule10(w))
        raw == score6 + late
    IN [conc |-> r1.add,
        score5 |-> score5,
        score6 |-> score6,
        late |-> late,
        raw_score |-> raw,
        risk_score |-> ClampScore(raw),
        warnings |->
            r1.warnings
              \o Flag(Rule2(w, m), "cyclical exposure")
              \o Flag(Rule3(w, m), "high volatility")
              \o Flag(Rule4(w, m), "heavy tech")
              \o Flag(Rule5(total_value, weekly_values), "from peak")
              \o Flag(LeveragePenalty(w) = 2, "CRITICAL gross exposure")
              \o Flag(LeveragePenalty(w) = 1, "WARNING gross exposure")
              \o Flag(Rule8(w, m), "squeeze risk")
              \o Flag(Rule9(w, m), "counter-trend")
              \o Flag(Rule10(w), "cash drag")]

-----------------------------------------------------------------------------
(* Specification SpecRisk: evaluate on valid allocations *)

\* Longest weekly_values list handed to evaluate
MaxHistory == 1

RiskWeightChoices ==
    <<{-5000, 0, 1428, 3600, 7000, 9000},   \* Tech
      {-5000, 1428, 3000, 5000},            \* Energy
      {0, 1428, 7000},                      \* Financials
      {0, 1428},                            \* Consumer Staples
      {1428},                               \* Consumer Discretionary
      {0, 1428},                            \* Industrials
      {0, 1428}>>                           \* Healthcare

RiskWeightTuples ==
    RiskWeightChoices[1] \X RiskWeightChoices[2] \X RiskWeightChoices[3]
        \X RiskWeightChoices[4] \X RiskWeightChoices[5]
        \X RiskWeightChoices[6] \X RiskWeightChoices[7]

\* Allocations that sit on and next to the thresholds of rules 1, 7 and 10:
\* <<Tech, Energy, Financials, Consumer Staples>>, the other sectors at 0
RiskThresholdTuples ==
    {<<6000, 4000, 0, 0>>, <<6001, -3999, 0, 0>>, <<4001, -4000, 0, 0>>,
     <<-4000, 6000, 5000, 3000>>, <<-4001, 6000, 5000, 3001>>,
     <<-2000, 6000, 6000, 0>>, <<-2001, 6000, 6000, 1>>,
     <<5000, 0, 0, 0>>, <<4999, 0, 0, 0>>, <<-1, 5000, 0, 0>>}

RiskThresholdAllocations ==
    {[s \in Sector |->
        IF SectorIndex(s) <= 4 THEN t[SectorIndex(s)] ELSE 0] :
            t \in RiskThresholdTuples}

\* Allocations with every absolute weight at or below 30% that still trip
\* the cyclical, leverage and short rules:
\* <<Tech, Energy, Industrials, every other sector>>
RiskDiversifiedTuples ==
    {<<3000, 3000, 3000, 0>>, <<3000, 3000, 1, 0>>, <<3000, 3000, 0, 0>>,
     <<-3000, -2000, 3000, 3000>>, <<-3000, 3000, 3000, 1000>>,
     <<3001, 3000, 0, 0>>, <<3000, 3000, 3000, -1000>>}

RiskDiversifiedAllocations ==
    {[s \in Sector |->
        CASE s = "Tech" -> t[1]
          [] s = "Energy" -> t[2]
          [] s = "Industrials" -> t[3]
          [] OTHER -> t[4]] : t \in RiskDiversifiedTuples}

\* Valid allocations: those the Allocation constructor accepts.
RiskAllocations ==
    {w \in {[s \in Sector |-> t[SectorIndex(s)]] : t \in RiskWeightTuples}
            \cup {[s \in Sector |-> v] : v \in {0, 700, 1000, 1428}}
            \cup RiskThresholdAllocations \cup RiskDiversifiedAllocations :
        NewAllocation(w).status = "accepted"}

ValueLists ==
    UNION {[1..n -> {0, 100}] : n \in 0..MaxHistory}

RiskInputs ==
    [weights : RiskAllocations,
     macro : {m \in MacroState : m.week = 0},
     total_value : {84, 100},
     weekly_values : ValueLists]

InitRisk ==
    /\ pc = "risk_input"
    /\ riskIn \in RiskInputs
    /\ riskOut = NoValue
    /\ rngLog = <<>>
    /\ AllocIdle /\ MacroIdle /\ EventIdle /\ ReturnIdle /\ ShortIdle
    /\ SeasonIdle

Evaluate ==
    /\ pc = "risk_input"
    /\ riskOut' = evaluate(riskIn.weights, riskIn.macro, riskIn.total_value,
                           riskIn.weekly_values)
    /\ pc' = "evaluated"
    /\ UNCHANGED <<seasonVars,
                   allocVars, macroVars, eventVars, returnVars, riskIn,
                   rngLog, shortVars>>

NextRisk == Evaluate

SpecRisk == InitRisk /\ [][NextRisk]_vars

\* C9: for every valid allocation, macro state, portfolio value and history
\* of weekly values the risk score is an integer in [1,10], however many
\* penalties fire together.
C9_RiskScoreInRange ==
    pc = "evaluated" => riskOut.risk_score \in 1..10

\* C9 witness: the penalties add up to more than 10 and the score is 10.
C9_Witness ==
    /\ pc = "evaluated"
    /\ riskOut.raw_score > 10
    /\ riskOut.risk_score = 10

\* C10: an equal-weight allocation in a bull / normal / stable macro state
\* with the portfolio not in drawdown scores at most 3; every valid
\* allocation holding 70% in one sector scores at least 4, in every macro
\* state and for every weighting of the other sectors.
C10_BalancedLowConcentratedHigh ==
    pc = "evaluated" =>
        LET w == riskIn.weights
            m == riskIn.macro
        IN /\ (/\ \A s, t \in Sector : w[s] = w[t]
               /\ m.regime = "bull"
               /\ m.volatility_state = "normal"
               /\ m.rate_direction = "stable"
               /\ ~Rule5(riskIn.total_value, riskIn.weekly_values))
                  => riskOut.risk_score <= 3
           /\ (\E s \in Sector : w[s] = 7000) => riskOut.risk_score >= 4

\* C10 witness: a 70% position whose score is exactly 4.
C10_Witness ==
    /\ pc = "evaluated"
    /\ \E s \in Sector : riskIn.weights[s] = 7000
    /\ riskOut.risk_score = 4

\* C10 witness for the balanced case: equal weights, bull / normal / stable,
\* no drawdown, scored.
C10_WitnessBalanced ==
    /\ pc = "evaluated"
    /\ \A s \in Sector : riskIn.weights[s] = 1428
    /\ riskIn.macro.regime = "bull"
    /\ riskIn.macro.volatility_state = "normal"
    /\ riskIn.macro.rate_direction = "stable"
    /\ riskIn.weekly_values = <<100>>
    /\ riskIn.total_value = 100
    /\ riskOut.risk_score = 1

\* Number of warnings of the list q that carry the tag
TagCount(q, tag) == Cardinality({i \in 1..Len(q) : q[i][1] = tag})

\* Sectors named by the warnings of the list q that carry the tag
TagSectors(q, tag) == {q[i][2] : i \in {j \in 1..Len(q) : q[j][1] = tag}}

C11_WitnessThreshold ==
    /\ pc = "evaluated"
    /\ riskIn.weights["Tech"] = 6000
    /\ riskIn.weights["Energy"] = 4000
    /\ riskOut.conc = 2

\* C11 witness for cash drag alone.
C11_WitnessCash ==
    /\ pc = "evaluated"
    /\ riskIn.weights["Tech"] = 4999
    /\ riskIn.weights["Energy"] = 0
    /\ riskOut.late = 1
    /\ riskOut.conc = 2

\* C22: when every absolute weight is at most 30% the diversification
\* bonus takes 1 off the score built by rules 1-5 and floors it at 1 right
\* there, before the leverage, short-squeeze, counter-trend and cash-drag
\* penalties are added: risk_score = min(10, max(1, s - 1) + p) with s the
\* score after the first five rules and p the sum of the four later
\* penalties; when some absolute weight exceeds 30% nothing is subtracted.
C22_BonusFlooredBeforeLatePenalties ==
    pc = "evaluated" =>
        LET w == riskIn.weights
            m == riskIn.macro
            critical == {t \in Sector : Abs(w[t]) > 6000}
            warning == {t \in Sector : Abs(w[t]) > 4000 /\ Abs(w[t]) <= 6000}
            largest == CHOOSE x \in {Abs(w[t]) : t \in Sector} :
                           \A t \in Sector : Abs(w[t]) <= x
            cyclical == Max2(0, w["Tech"]) + Max2(0, w["Industrials"])
                            + Max2(0, w["Energy"])
            stressed == m.volatility_state \in {"high", "crisis"}
            peak == IF riskIn.weekly_values = <<>> THEN 0
                    ELSE SeqMax(riskIn.weekly_values)
            drawdown == /\ peak > 0
                        /\ 100 * (riskIn.total_value - peak) < -15 * peak
            s == 1 + 3 * Cardinality(critical) + 2 * Cardinality(warning)
                   + 2 * Bit(m.regime = "recession" /\ cyclical > 6000)
                   + Bit(stressed /\ largest > 3500)
                   + Bit(m.rate_direction = "rising" /\ w["Tech"] > 3500)
                   + Bit(drawdown)
            gross == SumAbsOver(w, Sector)
            short == \E t \in Sector : w[t] < 0
            p == (IF gross > 18000 THEN 2 ELSE IF gross > 14000 THEN 1 ELSE 0)
                   + Bit(short /\ stressed)
                   + Bit(short /\ m.regime = "bull")
                   + Bit(10000 - SumOver(w, Sector) > 5000)
        IN IF largest <= 3000
           THEN riskOut.risk_score = Min2(10, Max2(1, s - 1) + p)
           ELSE riskOut.risk_score = Min2(10, s + p)

\* C22 witness: every weight at most 30%, no early rule fires (s = 1), the
\* floor keeps the score at 1 and a later penalty then brings it to 2.
C22_Witness ==
    /\ pc = "evaluated"
    /\ Rule6(riskIn.weights)
    /\ riskOut.score5 = 1
    /\ riskOut.late >= 1
    /\ riskOut.risk_score = 1 + riskOut.late

\* C22 witness for the subtraction: every weight at most 30%, the cyclical
\* and drawdown rules bring s to 4, the bonus takes 1 off and the leverage
\* and short penalties are added on top.
C22_WitnessSubtract ==
    /\ pc = "evaluated"
    /\ Rule6(riskIn.weights)
    /\ riskOut.score5 = 4
    /\ riskOut.score6 = 3
    /\ riskOut.late >= 1

\* C22 witness for the other branch: a weight just above 30%, nothing
\* subtracted.
C22_WitnessNoBonus ==
    /\ pc = "evaluated"
    /\ riskIn.weights["Tech"] = 3001
    /\ riskOut.score6 = riskOut.score5
    /\ riskOut.score5 >= 3

-----------------------------------------------------------------------------
(* agents/short_seller.py: ShortSellerAgent *)

\* _CYCLICAL_SECTORS, a set literal: its iteration order is the order of the
\* members' string hashes, which Python randomises per process.
CYCLICAL_SECTORS == {"Tech", "Energy", "Industrials"}

\* Number of critiques per sector in each pool
CONCENTRATION_CRITIQUES ==
    Dict(<<<<"Tech", 4>>, <<"Energy", 4>>, <<"Financials", 4>>,
           <<"Consumer Staples", 4>>, <<"Industrials", 4>>>>)

REGIME_MISALIGNMENT_CRITIQUES ==
    Dict(<<<<"Tech", 2>>, <<"Energy", 2>>, <<"Industrials", 2>>,
           <<"Financials", 2>>, <<"Consumer Staples", 2>>>>)

RATE_SENSITIVITY_CRITIQUES == 4

MOMENTUM_REVERSAL_CRITIQUES ==
    Dict(<<<<"Tech", 2>>, <<"Energy", 2>>, <<"Financials", 2>>,
           <<"Consumer Staples", 2>>, <<"Industrials", 2>>>>)

SHORT_SQUEEZE_CRITIQUES ==
    Dict(<<<<"Tech", 2>>, <<"Energy", 2>>, <<"Financials", 2>>,
           <<"Consumer Staples", 2>>, <<"Industrials", 2>>>>)

\* round(base + severity * span, 2) in hundredths, severity = num / den
\* (exact arithmetic, halves rounded up)
Conviction(base, span, num, den) ==
    (2 * (base * den + span * num) + den) \div (2 * den)

\* rng.choice(pool) for a pool of n critiques: the position chosen is a
\* function of the generator state u and of n
Choice(n, u) == (u * n) \div 100

\* A ShortThesis returned by check number `check`; draws counts the calls
\* of rng.choice made on the way (one, for the critique)
Thesis(check, sector, conviction, pool, n, u) ==
    [kind |-> "thesis", check |-> check, target_sector |-> sector,
     conviction |-> conviction, critique |-> <<pool, sector, Choice(n, u)>>,
     draws |-> 1]

\* None: no check called rng.choice
NoThesis == [kind |-> "none", draws |-> 0]

\* KeyError raised by POOL[sector], the argument of rng.choice, before the
\* call
KeyErrorResult(check, sector) ==
    [kind |-> "KeyError", check |-> check, target_sector |-> sector,
     draws |-> 0]

\* First position of seq `order` whose element satisfies membership in S
FirstOf(order, S) ==
    order[CHOOSE i \in 1..Len(order) :
              /\ order[i] \in S
              /\ \A j \in 1..(i - 1) : order[j] \notin S]

\* The mutant starts the concentration conviction at 0.55.
check_concentration_lowbase(w, u) ==
    LET hits == {s \in DOMAIN w : Abs(w[s]) > 4000}
    IN IF hits = {} THEN NoThesis
       ELSE LET sector == FirstOf(SectorOrder, hits)
                conviction == Conviction(55, 35, Abs(w[sector]) - 4000, 6000)
            IN IF sector \notin DOMAIN CONCENTRATION_CRITIQUES
               THEN KeyErrorResult(1, sector)
               ELSE Thesis(1, sector, Min2(conviction, 95), "concentration",
                           CONCENTRATION_CRITIQUES[sector], u)

\* _check_concentration: first sector of allocation.weights (order of entry,
\* cli/prompts.py SECTOR_ORDER) with |weight| > 40
check_concentration(w, u) ==
    LET hits == {s \in DOMAIN w : Abs(w[s]) > 4000}
    IN IF hits = {} THEN NoThesis
       ELSE LET sector == FirstOf(SectorOrder, hits)
                conviction == Conviction(60, 35, Abs(w[sector]) - 4000, 6000)
            IN IF sector \notin DOMAIN CONCENTRATION_CRITIQUES
               THEN KeyErrorResult(1, sector)
               ELSE Thesis(1, sector, Min2(conviction, 95), "concentration",
                           CONCENTRATION_CRITIQUES[sector], u)

\* _check_player_short: min(short_weights, key=...) is the first most
\* negative entry in dict order
check_player_short(w, m, u) ==
    LET shorts == {s \in DOMAIN w : w[s] < -1000}
        lowest == {s \in shorts : \A t \in shorts : w[s] <= w[t]}
    IN IF m.regime \notin {"bull", "recovery"} \/ shorts = {} THEN NoThesis
       ELSE LET target == FirstOf(SectorOrder, lowest)
                conviction == Conviction(55, 35, Abs(w[target]) - 1000, 4000)
            IN IF target \notin DOMAIN SHORT_SQUEEZE_CRITIQUES
               THEN KeyErrorResult(2, target)
               ELSE Thesis(2, target, Min2(conviction, 90), "squeeze",
                           SHORT_SQUEEZE_CRITIQUES[target], u)

\* _check_regime_misalignment: cyclical_weights is filled in the iteration
\* order of _CYCLICAL_SECTORS and max(..., key=...) returns the first
\* heaviest entry in that order
check_regime_misalignment(w, m, order, u) ==
    LET heavy == {s \in CYCLICAL_SECTORS : w[s] > 2500}
        heaviest == {s \in heavy : \A t \in heavy : w[s] >= w[t]}
    IN IF m.regime \notin {"recession", "bear"} \/ heavy = {} THEN NoThesis
       ELSE LET target == FirstOf(order, heaviest)
                conviction == Conviction(55, 35, w[target] - 2500, 7500)
            IN Thesis(3, target, Min2(conviction, 90), "misalignment",
                      REGIME_MISALIGNMENT_CRITIQUES[target], u)

\* _check_rate_sensitivity
check_rate_sensitivity(w, m, u) ==
    IF m.rate_direction # "rising" \/ w["Tech"] <= 3000 THEN NoThesis
    ELSE Thesis(4, "Tech",
                Min2(Conviction(50, 40, w["Tech"] - 3000, 7000), 90),
                "rate", RATE_SENSITIVITY_CRITIQUES, u)

\* _check_momentum_reversal from position i of `for sector in Sector` on;
\* history is the list of adjusted_returns.returns of game_state.history
RECURSIVE MomentumLoop(_, _, _, _)
MomentumLoop(w, recent, i, u) ==
    IF i > Len(SectorOrder) THEN NoThesis
    ELSE LET sector == SectorOrder[i]
         IN IF \E k \in 1..Len(recent) :
                   /\ sector \notin DOMAIN recent[k]
                   /\ \A j \in 1..(k - 1) :
                         sector \in DOMAIN recent[j] /\ recent[j][sector] > 0
            THEN KeyErrorResult(5, sector)
            ELSE IF ~(\A k \in 1..Len(recent) :
                         sector \in DOMAIN recent[k] /\ recent[k][sector] > 0)
                    \/ w[sector] < 2500
            THEN MomentumLoop(w, recent, i + 1, u)
            ELSE IF sector \notin DOMAIN MOMENTUM_REVERSAL_CRITIQUES
            THEN KeyErrorResult(5, sector)
            ELSE Thesis(5, sector,
                        Min2(Conviction(50, 30, w[sector] - 2500, 7500), 80),
                        "momentum", MOMENTUM_REVERSAL_CRITIQUES[sector], u)

check_momentum_reversal(w, history, u) ==
    IF Len(history) < 2 THEN NoThesis
    ELSE MomentumLoop(w, SubSeq(history, Len(history) - 1, Len(history)),
                      1, u)

\* The mutant asks the rate-sensitivity check before the regime check.
analyze_rate_first(w, m, history, order, u) ==
    LET r1 == check_concentration(w, u)
        r2 == check_player_short(w, m, u)
        r3 == check_regime_misalignment(w, m, order, u)
        r4 == check_rate_sensitivity(w, m, u)
        r5 == check_momentum_reversal(w, history, u)
    IN IF r1.kind # "none" THEN r1
       ELSE IF r2.kind # "none" THEN r2
       ELSE IF r4.kind # "none" THEN r4
       ELSE IF r3.kind # "none" THEN r3
       ELSE r5

\* analyze(allocation, macro, game_state, rng): the five checks in priority
\* order, the first result that is not None wins; an exception of a check
\* leaves analyze.  `order` is the iteration order of _CYCLICAL_SECTORS in
\* the running process, u the state of the generator.
analyze(w, m, history, order, u) ==
    LET r1 == check_concentration(w, u)
        r2 == check_player_short(w, m, u)
        r3 == check_regime_misalignment(w, m, order, u)
        r4 == check_rate_sensitivity(w, m, u)
        r5 == check_momentum_reversal(w, history, u)
    IN IF r1.kind # "none" THEN r1
       ELSE IF r2.kind # "none" THEN r2
       ELSE IF r3.kind # "none" THEN r3
       ELSE IF r4.kind # "none" THEN r4
       ELSE r5

-----------------------------------------------------------------------------
(* Specification SpecShort: the short-seller step of a week in two runs of *)
(* the game (two processes) with the same seed and the same player input   *)

Runs == {1, 2}

\* Orders in which a process may iterate over _CYCLICAL_SECTORS
SetOrders ==
    {q \in [1..3 -> CYCLICAL_SECTORS] : \A i, j \in 1..3 : i # j => q[i] # q[j]}

ShortAllocations ==
    {w \in
        {[s \in Sector |-> 0],
         [s \in Sector |-> 1428],
         [s \in Sector |-> IF s \in {"Tech", "Energy"} THEN 3000 ELSE 0],
         [s \in Sector |-> IF s \in {"Tech", "Energy", "Industrials"}
                           THEN 3000 ELSE 0],
         [s \in Sector |-> IF s = "Tech" THEN 3500
                           ELSE IF s = "Energy" THEN 3000 ELSE 0],
         [s \in Sector |-> IF s = "Tech" THEN 4100 ELSE 900],
         [s \in Sector |-> IF s = "Healthcare" THEN 2500 ELSE 1000],
         [s \in Sector |-> IF s = "Financials" THEN 7000
                           ELSE IF s = "Energy" THEN -2000 ELSE 0],
         [s \in Sector |-> IF s = "Industrials" THEN -2000
                           ELSE IF s = "Tech" THEN 3100 ELSE 1428],
         [s \in Sector |-> IF s = "Tech" THEN -2000
                           ELSE IF s = "Energy" THEN -2000 ELSE 2000],
         [s \in Sector |-> IF s = "Tech" THEN 10000 ELSE 0],
         [s \in Sector |-> IF s = "Healthcare" THEN 4500 ELSE 500],
         [s \in Sector |-> IF s = "Consumer Discretionary" THEN -2000
                           ELSE 1000],
         [s \in Sector |-> IF s = "Tech" THEN -5000
                           ELSE IF s = "Energy" THEN 4000 ELSE 1000]} :
        NewAllocation(w).status = "accepted"}

\* game_state.history as the list of adjusted returns of the past weeks
ShortHistories ==
    {<<>>,
     <<[s \in Sector |-> 100000], [s \in Sector |-> 200000]>>,
     <<[s \in Sector |-> 100000],
       [s \in Sector |-> IF s = "Tech" THEN -100000 ELSE 100000]>>}

ShortInputs ==
    [weights : ShortAllocations,
     macro : {m \in MacroState : m.week = 0},
     history : ShortHistories,
     u : {9, 65}]

InitShort ==
    /\ pc = "short_input"
    /\ shortIn \in ShortInputs
    /\ setOrder \in [Runs -> SetOrders]
    /\ thesis = [p \in Runs |-> [kind |-> "pending"]]
    /\ rngLog = <<>>
    /\ AllocIdle /\ MacroIdle /\ EventIdle /\ ReturnIdle /\ RiskIdle
    /\ SeasonIdle

\* run_game, cli/app.py:173: narrative_layer.short_seller.analyze(
\*     allocation, new_macro, game_state, rng) in run p
AnalyzeRun(p) ==
    /\ thesis[p].kind = "pending"
    /\ thesis' = [thesis EXCEPT ![p] =
                     analyze(shortIn.weights, shortIn.macro, shortIn.history,
                             setOrder[p], shortIn.u)]
    /\ pc' = IF \A q \in Runs \ {p} : thesis[q].kind # "pending"
             THEN "short_done" ELSE "short_running"
    /\ UNCHANGED <<seasonVars,
                   allocVars, macroVars, eventVars, returnVars, riskVars,
                   shortIn, setOrder, rngLog>>

NextShort == \E p \in Runs : AnalyzeRun(p)

SpecShort == InitShort /\ [][NextShort]_vars

\* C8: two runs with the same seed and the same player allocations produce
\* identical output, the short thesis and its target sector included; no
\* result depends on anything but the seed, the inputs and the order of
\* operations.
C8_SameSeedSameThesis ==
    pc = "short_done" => thesis[1] = thesis[2]

\* Triggers of the five checks, as documented at their call in analyze
ConcentrationTrigger(w) == \E s \in Sector : Abs(w[s]) > 4000

SqueezeTrigger(w, m) ==
    m.regime \in {"bull", "recovery"} /\ \E s \in Sector : w[s] < -1000

MisalignmentTrigger(w, m) ==
    /\ m.regime \in {"recession", "bear"}
    /\ \E s \in {"Tech", "Energy", "Industrials"} : w[s] > 2500

RateTrigger(w, m) == m.rate_direction = "rising" /\ w["Tech"] > 3000

MomentumTrigger(w, history) ==
    /\ Len(history) >= 2
    /\ \E s \in Sector :
          /\ history[Len(history)][s] > 0
          /\ history[Len(history) - 1][s] > 0
          /\ w[s] >= 2500

\* Number of the first check whose trigger holds, 0 when none does
FirstTrigger(w, m, history) ==
    IF ConcentrationTrigger(w) THEN 1
    ELSE IF SqueezeTrigger(w, m) THEN 2
    ELSE IF MisalignmentTrigger(w, m) THEN 3
    ELSE IF RateTrigger(w, m) THEN 4
    ELSE IF MomentumTrigger(w, history) THEN 5
    ELSE 0

C12_WitnessNone ==
    /\ thesis[1].kind = "none"
    /\ thesis[1].draws = 0
    /\ shortIn.weights["Tech"] = 3000
    /\ shortIn.macro.rate_direction = "rising"
    /\ shortIn.macro.regime = "bull"

\* Documented conviction range of each check, in hundredths
ConvictionRange(check) ==
    CASE check = 1 -> 60..95
      [] check = 2 -> 55..90
      [] check = 3 -> 55..90
      [] check = 4 -> 50..90
      [] check = 5 -> 50..80

\* C13: every thesis analyze returns has its conviction inside the range of
\* the check that produced it (concentration [0.60, 0.95], squeeze and
\* regime misalignment [0.55, 0.90], rate sensitivity [0.50, 0.90], momentum
\* reversal [0.50, 0.80]), so within [0,1]; and an allocation with the same
\* weight in every sector gets no thesis, whatever the macro state and the
\* history.
C13_ConvictionInRangeAndBalancedSafe ==
    \A p \in Runs :
        thesis[p].kind # "pending" =>
            /\ thesis[p].kind = "thesis" =>
                   /\ thesis[p].conviction \in ConvictionRange(thesis[p].check)
                   /\ thesis[p].conviction \in 0..100
            /\ (\A s, t \in Sector : shortIn.weights[s] = shortIn.weights[t])
                   => thesis[p].kind = "none"

\* C13 witness: a sector at 41% in a bull market with stable rates draws a
\* concentration thesis with conviction at least 0.60.
C13_Witness ==
    /\ thesis[1].kind = "thesis"
    /\ thesis[1].check = 1
    /\ shortIn.weights["Tech"] = 4100
    /\ shortIn.macro.regime = "bull"
    /\ shortIn.macro.rate_direction = "stable"
    /\ thesis[1].conviction >= 60
    /\ thesis[1].conviction <= 61

\* C13 witness for the balanced case: equal positive weights, a history of
\* winning weeks, a recession with rising rates, and no thesis.
C13_WitnessBalanced ==
    /\ thesis[1].kind = "none"
    /\ \A s \in Sector : shortIn.weights[s] = 1428
    /\ Len(shortIn.history) = 2
    /\ shortIn.macro.regime = "recession"
    /\ shortIn.macro.rate_direction = "rising"

\* C13 witness for the upper end: a 100% position has conviction 0.95.
C13_WitnessCap ==
    /\ thesis[1].kind = "thesis"
    /\ thesis[1].check = 1
    /\ shortIn.weights["Tech"] = 10000
    /\ thesis[1].conviction = 95

\* C14: analyze is total: for every valid allocation, macro state and fully
\* populated history it returns a thesis or none and never fails on a
\* lookup; every critique pool is defined for every sector its check can
\* pick as target.
C14_AnalyzeTotal ==
    \A p \in Runs : thesis[p].kind # "KeyError"

-----------------------------------------------------------------------------
(* agents/rival_pm.py: RivalPM *)
(* Weights are hundredths of a percent as before.  The returns of the      *)
(* history handed to a rival are in hundredths (0.01 = 1), so that the     *)
(* products of the normalisation stay inside the integers of the checker.  *)
(* A raw weight map is a record [num, den]: sector s has num[s] / den      *)
(* percent.  round(x, 2) rounds the exact quotient, halves upward.         *)

ALL_STRATEGIES == {"momentum", "defensive", "macro_timer", "value"}

\* _MACRO_TIMER_TARGETS, percent
MACRO_TIMER_TARGETS ==
    [bull |->
        Dict(<<<<"Tech", 25>>, <<"Energy", 8>>, <<"Financials", 12>>,
               <<"Consumer Staples", 8>>, <<"Consumer Discretionary", 18>>,
               <<"Industrials", 22>>, <<"Healthcare", 7>>>>),
     bear |->
        Dict(<<<<"Tech", 8>>, <<"Energy", 8>>, <<"Financials", 20>>,
               <<"Consumer Staples", 30>>, <<"Consumer Discretionary", 7>>,
               <<"Industrials", 10>>, <<"Healthcare", 17>>>>),
     recession |->
        Dict(<<<<"Tech", 5>>, <<"Energy", 5>>, <<"Financials", 12>>,
               <<"Consumer Staples", 35>>, <<"Consumer Discretionary", 5>>,
               <<"Industrials", 13>>, <<"Healthcare", 25>>>>),
     recovery |->
        Dict(<<<<"Tech", 12>>, <<"Energy", 22>>, <<"Financials", 20>>,
               <<"Consumer Staples", 8>>, <<"Consumer Discretionary", 12>>,
               <<"Industrials", 18>>, <<"Healthcare", 8>>>>)]

\* _DEFENSIVE_TARGETS, percent
DEFENSIVE_TARGETS ==
    [bull |->
        Dict(<<<<"Tech", 8>>, <<"Energy", 8>>, <<"Financials", 15>>,
               <<"Consumer Staples", 28>>, <<"Consumer Discretionary", 8>>,
               <<"Industrials", 13>>, <<"Healthcare", 20>>>>),
     bear |->
        Dict(<<<<"Tech", 5>>, <<"Energy", 5>>, <<"Financials", 15>>,
               <<"Consumer Staples", 30>>, <<"Consumer Discretionary", 5>>,
               <<"Industrials", 13>>, <<"Healthcare", 27>>>>),
     recession |->
        Dict(<<<<"Tech", 5>>, <<"Energy", 5>>, <<"Financials", 10>>,
               <<"Consumer Staples", 30>>, <<"Consumer Discretionary", 5>>,
               <<"Industrials", 13>>, <<"Healthcare", 32>>>>),
     recovery |->
        Dict(<<<<"Tech", 10>>, <<"Energy", 12>>, <<"Financials", 15>>,
               <<"Consumer Staples", 22>>, <<"Consumer Discretionary", 10>>,
               <<"Industrials", 15>>, <<"Healthcare", 16>>>>)]

\* Quotient n / d rounded to the nearest integer, d > 0
RoundDiv(n, d) == (2 * n + d) \div (2 * d)

\* rng.uniform(a, b) = a + (b - a) * random(), in hundredths, for
\* random() = r / 100
uniform(a, b, r) == 100 * a + (b - a) * r

\* max(d, key=d.get): the first key, in the order of entry, with the largest
\* value
FirstLargest(f) ==
    FirstOf(SectorOrder, {s \in DOMAIN f : \A t \in DOMAIN f : f[s] >= f[t]})

\* The mutant returns the floored weights without dividing by their total.
_normalize_weights_unscaled(raw, min_pct) ==
    [s \in DOMAIN raw.num |->
        RoundDiv(Max2(min_pct * raw.den, raw.num[s]) * 100, raw.den)]

\* _normalize_weights(raw, min_pct): floor every raw weight at min_pct,
\* divide by the total, round to two decimals, add the rounding residual to
\* the largest weight
_normalize_weights(raw, min_pct) ==
    LET \* adjusted = {s: max(min_pct, w) for s, w in raw.items()}
        floored == [s \in DOMAIN raw.num |->
                       Max2(min_pct * raw.den, raw.num[s])]
        total == SumOver(floored, DOMAIN floored)
        normalized == [s \in DOMAIN floored |->
                          RoundDiv(floored[s] * 10000, total)]
        residual == 10000 - SumOver(normalized, DOMAIN normalized)
        largest == FirstLargest(normalized)
    IN IF residual # 0
       THEN [normalized EXCEPT ![largest] = normalized[largest] + residual]
       ELSE normalized

\* game_state.history[-window:] as a list of adjusted returns
LastWeeks(history, window) ==
    IF Len(history) <= window THEN history
    ELSE SubSeq(history, Len(history) - window + 1, Len(history))

\* Sum of the returns of sector s over the weeks i.. of the list
RECURSIVE SumWeeks(_, _, _)
SumWeeks(weeks, s, i) ==
    IF i > Len(weeks) THEN 0 ELSE weeks[i][s] + SumWeeks(weeks, s, i + 1)

\* _trailing_returns(game_state, window)
_trailing_returns(history, window) ==
    [s \in Sector |-> SumWeeks(LastWeeks(history, window), s, 1)]

\* {s: 20.0 + rng.uniform(-2, 2) for s in Sector}
NoisyEqual(r) ==
    [num |-> [s \in Sector |-> 2000 + uniform(-2, 2, r[s])], den |-> 100]

\* _momentum_decide
_momentum_decide(history, r) ==
    LET trailing == _trailing_returns(history, 4)
    IN IF history = <<>> \/ \A s \in Sector : trailing[s] = 0
       THEN _normalize_weights(NoisyEqual(r), 5)
       ELSE LET min_ret == CHOOSE v \in {trailing[s] : s \in Sector} :
                               \A s \in Sector : v <= trailing[s]
                shifted == [s \in Sector |-> trailing[s] - min_ret + 1]
                total == SumOver(shifted, Sector)
            IN _normalize_weights(
                   [num |-> [s \in Sector |-> shifted[s] * 100],
                    den |-> total], 5)

\* base = dict(TARGETS[macro.regime]); base[s] += rng.uniform(-3, 3)
NoisyTargets(targets, r) ==
    [num |-> [s \in Sector |-> 100 * targets[s] + uniform(-3, 3, r[s])],
     den |-> 100]

\* _defensive_decide
_defensive_decide(m, r) ==
    _normalize_weights(NoisyTargets(DEFENSIVE_TARGETS[m.regime], r), 5)

\* _macro_timer_decide
_macro_timer_decide(m, r) ==
    _normalize_weights(NoisyTargets(MACRO_TIMER_TARGETS[m.regime], r), 5)

\* _value_decide
_value_decide(history, r) ==
    LET trailing == _trailing_returns(history, 4)
    IN IF history = <<>> \/ \A s \in Sector : trailing[s] = 0
       THEN _normalize_weights(NoisyEqual(r), 10)
       ELSE LET max_ret == CHOOSE v \in {trailing[s] : s \in Sector} :
                               \A s \in Sector : v >= trailing[s]
                inverted == [s \in Sector |-> max_ret - trailing[s] + 1]
                total == SumOver(inverted, Sector)
            IN _normalize_weights(
                   [num |-> [s \in Sector |-> inverted[s] * 100],
                    den |-> total], 10)

\* RivalPM(strategy).decide(macro, game_state, rng): the weights of the
\* strategy and the Allocation built from them; r[s] is the value of
\* random() behind the draw made for sector s
decide(strategy, m, history, r) ==
    LET weights ==
            CASE strategy = "momentum" -> _momentum_decide(history, r)
              [] strategy = "defensive" -> _defensive_decide(m, r)
              [] strategy = "macro_timer" -> _macro_timer_decide(m, r)
              [] strategy = "value" -> _value_decide(history, r)
    IN [weights |-> weights, allocation |-> NewAllocation(weights)]

-----------------------------------------------------------------------------
(* Specification SpecRival: one decision of a rival *)

\* Values of random(), in hundredths
UniformDraws == {0, 50, 99}

\* Weekly adjusted returns, <<Tech, Energy, Financials, Consumer Staples,
\* Consumer Discretionary, Industrials, Healthcare>> in hundredths
RivalWeeks ==
    [flat |-> <<0, 0, 0, 0, 0, 0, 0>>,
     tech_up |-> <<5, 1, 1, 1, 1, 1, 1>>,
     tech_boom |-> <<20, 0, 0, 0, 0, 0, 0>>,
     energy_down |-> <<1, -5, 1, 1, 1, 1, 1>>,
     mixed |-> <<3, -2, 1, 0, -4, 2, 0>>]

RivalWeek(name) == [s \in Sector |-> RivalWeeks[name][SectorIndex(s)]]

RivalHistories ==
    {<<>>,
     <<RivalWeek("flat")>>,
     <<RivalWeek("tech_up"), RivalWeek("tech_up")>>,
     <<RivalWeek("energy_down"), RivalWeek("energy_down")>>,
     <<RivalWeek("tech_boom")>>,
     <<RivalWeek("tech_boom"), RivalWeek("mixed"), RivalWeek("mixed"),
       RivalWeek("flat"), RivalWeek("energy_down")>>}

\* decide reads macro.regime only; the other fields are held at the values
\* of the first week
RivalMacros ==
    {m \in MacroState : /\ m.week = 0
                        /\ m.volatility_state = INITIAL_VOL_STATE
                        /\ m.rate_direction = INITIAL_RATE_DIR}

RivalInputs ==
    [strategy : ALL_STRATEGIES,
     macro : RivalMacros,
     history : RivalHistories,
     r : [Sector -> UniformDraws]]

InitRival ==
    /\ pc = "rival_input"
    /\ rivalIn \in RivalInputs
    /\ rivalOut = NoValue
    /\ rngLog = <<>>
    /\ AllocIdle /\ MacroIdle /\ EventIdle /\ ReturnIdle /\ RiskIdle
    /\ ShortIdle /\ ScoreIdle /\ CareerIdle /\ LoopIdle

Decide ==
    /\ pc = "rival_input"
    /\ rivalOut' = decide(rivalIn.strategy, rivalIn.macro, rivalIn.history,
                          rivalIn.r)
    /\ pc' = "decided"
    /\ UNCHANGED <<allocVars, macroVars, eventVars, returnVars, riskVars,
                   shortVars, scoreVars, careerVars, loopVars, rivalIn,
                   rngLog>>

NextRival == Decide

SpecRival == InitRival /\ [][NextRival]_vars

\* C15: for each of the four strategies, every macro state, every history
\* (the empty one included) and every outcome of the draws, decide returns
\* a valid Allocation that holds every Sector, has every weight strictly
\* positive and sums to 100% within 0.1.
C15_RivalAllocationValid ==
    pc = "decided" =>
        /\ rivalOut.allocation.status = "accepted"
        /\ DOMAIN rivalOut.weights = Sector
        /\ \A s \in Sector : rivalOut.weights[s] > 0
        /\ Abs(SumOver(rivalOut.weights, Sector) - 10000) < 10

\* C15 witness: a momentum rival after a week in which one sector made all
\* the gains: the floor acts on six sectors and the result is accepted.
C15_Witness ==
    /\ pc = "decided"
    /\ rivalIn.strategy = "momentum"
    /\ rivalIn.history = <<RivalWeek("tech_boom")>>
    /\ rivalOut.allocation.status = "accepted"
    /\ rivalOut.weights["Tech"] > 7000

\* C15 witness for the residual: the rounded weights did not add up to 100
\* and the largest one took the difference.
C15_WitnessResidual ==
    /\ pc = "decided"
    /\ rivalIn.strategy = "defensive"
    /\ rivalOut.allocation.status = "accepted"
    /\ LET raw == NoisyTargets(DEFENSIVE_TARGETS[rivalIn.macro.regime],
                               rivalIn.r)
           floored == [s \in Sector |-> Max2(500, raw.num[s])]
       IN \E s \in Sector :
             rivalOut.weights[s]
                 # RoundDiv(floored[s] * 10000, SumOver(floored, Sector))

\* Floor of each strategy, hundredths of a percent
StrategyFloor(strategy) == IF strategy = "value" THEN 1000 ELSE 500

\* C16: every weight of an allocation returned by decide is at least the
\* strategy's floor (5% for momentum, defensive and macro-timer, 10% for
\* value), for every history and trailing-return profile, one dominated by
\* a single sector included.
C16_FloorHoldsOnResult ==
    pc = "decided" =>
        \A s \in Sector :
            rivalOut.weights[s] >= StrategyFloor(rivalIn.strategy)

-----------------------------------------------------------------------------
(* scoring/calculator.py *)
(* Portfolio values are whole units; ratios are kept x 10000.  A power     *)
(* with a fractional exponent and a square root have no integer form, so   *)
(* the CAGR is kept as "the sentinel -1.0" or "a value above -1 with the   *)
(* sign of final - initial" and the Sharpe ratio as its sign (it is 0      *)
(* exactly where the code returns 0.0 or the mean return is 0).            *)

Sign(x) == IF x > 0 THEN 1 ELSE IF x < 0 THEN -1 ELSE 0

\* compute_cagr(initial, final, weeks)
compute_cagr(initial, final, weeks) ==
    IF initial <= 0 \/ final <= 0 \/ weeks <= 0
    THEN [sentinel |-> TRUE, sign |-> -1]
    ELSE [sentinel |-> FALSE, sign |-> Sign(final - initial)]

\* compute_max_drawdown, the loop over weekly_values[1:] from position i on
RECURSIVE DrawdownLoop(_, _, _, _)
DrawdownLoop(weekly_values, i, peak, max_dd) ==
    IF i > Len(weekly_values) THEN [status |-> "ok", value |-> max_dd]
    ELSE LET value == weekly_values[i]
             new_peak == IF value > peak THEN value ELSE peak
         IN IF new_peak = 0
            THEN [status |-> "ZeroDivisionError", value |-> max_dd]
            ELSE LET dd == ((value - new_peak) * 10000) \div new_peak
                 IN DrawdownLoop(weekly_values, i + 1, new_peak,
                                 Min2(dd, max_dd))

\* compute_max_drawdown(weekly_values)
compute_max_drawdown(weekly_values) ==
    IF Len(weekly_values) < 2 THEN [status |-> "ok", value |-> 0]
    ELSE DrawdownLoop(weekly_values, 2, weekly_values[1], 0)

\* The weekly_returns comprehension of compute_scorecard; defined when no
\* value but the last is zero
WeeklyReturns(weekly_values) ==
    [i \in 1..(Len(weekly_values) - 1) |->
        ((weekly_values[i + 1] - weekly_values[i]) * 10000)
            \div weekly_values[i]]

RECURSIVE SeqSum(_)
SeqSum(q) == IF q = <<>> THEN 0 ELSE Head(q) + SeqSum(Tail(q))

\* compute_sharpe_ratio(weekly_returns), by sign: 0.0 for fewer than two
\* returns and for a volatility below 1e-10 (all returns equal), else
\* mean * 12 / ann_vol
compute_sharpe_ratio(weekly_returns) ==
    IF Len(weekly_returns) < 2 THEN 0
    ELSE IF \A j, k \in 1..Len(weekly_returns) :
               weekly_returns[j] = weekly_returns[k] THEN 0
    ELSE Sign(SeqSum(weekly_returns))

\* compute_scorecard(weekly_values), for a list that is not empty.  The
\* keyword arguments of ScoreCard are evaluated in the order written.
compute_scorecard(weekly_values) ==
    LET initial == weekly_values[1]
        final == weekly_values[Len(weekly_values)]
        weeks == Len(weekly_values) - 1
        raised == [status |-> "ZeroDivisionError"]
    IN IF \E j \in 1..(Len(weekly_values) - 1) : weekly_values[j] = 0
       THEN raised                         \* weekly_returns
       ELSE IF initial = 0 THEN raised     \* total_return_pct
       ELSE LET dd == compute_max_drawdown(weekly_values)
            IN IF dd.status # "ok" THEN raised
               ELSE [status |-> "ok",
                     initial_value |-> initial,
                     final_value |-> final,
                     cagr |-> compute_cagr(initial, final, weeks),
                     max_drawdown |-> dd.value,
                     sharpe_ratio |->
                         compute_sharpe_ratio(WeeklyReturns(weekly_values)),
                     total_weeks |-> weeks]

-----------------------------------------------------------------------------
(* Specification SpecScore: the scoring functions on bounded inputs *)

\* Longest list of weekly values handed to compute_scorecard
MaxValues == 4

PortfolioValues == {0, 50, 100, 200}

CagrInputs ==
    [initial : {-100, 0, 50, 100}, final : {-100, 0, 50, 100, 200},
     weeks : {-1, 0, 1, 12, 26}]

ValueSeries == UNION {[1..n -> PortfolioValues] : n \in 1..MaxValues}

InitScore ==
    /\ \/ pc = "cagr_input" /\ scoreIn \in CagrInputs
       \/ pc = "scorecard_input" /\ scoreIn \in ValueSeries
    /\ scoreOut = NoValue
    /\ rngLog = <<>>
    /\ AllocIdle /\ MacroIdle /\ EventIdle /\ ReturnIdle /\ RiskIdle
    /\ ShortIdle /\ RivalIdle /\ CareerIdle /\ LoopIdle

ComputeCagr ==
    /\ pc = "cagr_input"
    /\ scoreOut' = compute_cagr(scoreIn.initial, scoreIn.final, scoreIn.weeks)
    /\ pc' = "cagr_done"
    /\ UNCHANGED <<allocVars, macroVars, eventVars, returnVars, riskVars,
                   shortVars, rivalVars, careerVars, loopVars, scoreIn,
                   rngLog>>

ComputeScorecard ==
    /\ pc = "scorecard_input"
    /\ scoreOut' = compute_scorecard(scoreIn)
    /\ pc' = "scorecard_done"
    /\ UNCHANGED <<allocVars, macroVars, eventVars, returnVars, riskVars,
                   shortVars, rivalVars, careerVars, loopVars, scoreIn,
                   rngLog>>

NextScore == ComputeCagr \/ ComputeScorecard

SpecScore == InitScore /\ [][NextScore]_vars

\* The series has a zero as its initial value or as an intermediate value.
ZeroBeforeEnd(weekly_values) ==
    \/ weekly_values[1] = 0
    \/ \E j \in 2..(Len(weekly_values) - 1) : weekly_values[j] = 0

\* C17: degenerate numeric input to scoring is answered with sentinels and
\* never with a failure: compute_cagr returns exactly -1.0 whenever the
\* initial value, the final value or the period count is not positive, and
\* the scorecard of a series whose initial value or an intermediate value
\* is zero is a ScoreCard with CAGR -1 and Sharpe 0, not an exception.
C17_DegenerateInputGetsSentinels ==
    /\ pc = "cagr_done" =>
          ((scoreIn.initial <= 0 \/ scoreIn.final <= 0 \/ scoreIn.weeks <= 0)
              => scoreOut.sentinel)
    /\ pc = "scorecard_done" =>
          (ZeroBeforeEnd(scoreIn) =>
              /\ scoreOut.status = "ok"
              /\ scoreOut.cagr.sentinel
              /\ scoreOut.sharpe_ratio = 0)

\* The half of C17 that is about compute_cagr alone: the sentinel -1.0 is
\* returned exactly for the degenerate arguments.
CagrSentinelOnDegenerate ==
    pc = "cagr_done" =>
        (scoreOut.sentinel <=>
            (scoreIn.initial <= 0 \/ scoreIn.final <= 0 \/ scoreIn.weeks <= 0))

\* A wipeout in the last week alone is scored: CAGR -1, and Sharpe 0 when
\* the series has a single return.
FinalWipeoutScored ==
    /\ pc = "scorecard_done"
    /\ scoreIn = <<100, 0>>
    /\ scoreOut.status = "ok"
    /\ scoreOut.cagr.sentinel
    /\ scoreOut.sharpe_ratio = 0
    /\ scoreOut.max_drawdown = -10000

-----------------------------------------------------------------------------
(* career/progression.py *)
(* The ratios of a ScoreCard (cagr, sharpe_ratio, max_drawdown) are kept   *)
(* x 100000 and its values in thousandths of a dollar; the ratios of a     *)
(* CareerProfile, which the update rounds to four decimals, are kept       *)
(* x 10000 and total_pnl, rounded to two decimals, in cents.  player_name  *)
(* and updated_at play no part in the statistics and are left out.         *)

CareerTitle ==
    {"Retail Speculator", "Junior PM", "Macro Operator",
     "Institutional Strategist", "Legendary Allocator"}

\* create_new_career(player_name)
create_new_career ==
    [title |-> "Retail Speculator",
     seasons_played |-> 0,
     lifetime_cagr |-> 0,
     best_sharpe |-> 0,
     worst_drawdown |-> 0,
     total_pnl |-> 0]

\* The mutant asks a positive lifetime CAGR of the second tier as well.
compute_title_cagr_gate(profile) ==
    IF /\ profile.seasons_played >= 10
       /\ profile.best_sharpe > 15000
       /\ profile.worst_drawdown > -2500
    THEN "Legendary Allocator"
    ELSE IF /\ profile.seasons_played >= 5
            /\ profile.best_sharpe > 10000
            /\ profile.lifetime_cagr > 0
    THEN "Institutional Strategist"
    ELSE IF profile.seasons_played >= 3 /\ profile.lifetime_cagr > 0
    THEN "Macro Operator"
    ELSE IF profile.seasons_played >= 1 THEN "Junior PM"
    ELSE "Retail Speculator"

\* The mutant leaves the drawdown gate out of the highest tier.
compute_title_nodrawdown(profile) ==
    IF profile.seasons_played >= 10 /\ profile.best_sharpe > 15000
    THEN "Legendary Allocator"
    ELSE IF profile.seasons_played >= 5 /\ profile.best_sharpe > 10000
    THEN "Institutional Strategist"
    ELSE IF profile.seasons_played >= 3 /\ profile.lifetime_cagr > 0
    THEN "Macro Operator"
    ELSE IF profile.seasons_played >= 1 THEN "Junior PM"
    ELSE "Retail Speculator"

\* compute_title(profile)
compute_title(profile) ==
    IF /\ profile.seasons_played >= 10
       /\ profile.best_sharpe > 15000
       /\ profile.worst_drawdown > -2500
    THEN "Legendary Allocator"
    ELSE IF profile.seasons_played >= 5 /\ profile.best_sharpe > 10000
    THEN "Institutional Strategist"
    ELSE IF profile.seasons_played >= 3 /\ profile.lifetime_cagr > 0
    THEN "Macro Operator"
    ELSE IF profile.seasons_played >= 1 THEN "Junior PM"
    ELSE "Retail Speculator"

\* The statistics of update_career_after_season before the title is set
UpdatedStats(profile, new_cagr_num, new_cagr_den, scorecard) ==
    LET new_seasons == profile.seasons_played + 1
        pnl == scorecard.final_value - scorecard.initial_value
        new_best_sharpe ==
            Max2(profile.best_sharpe * 10, scorecard.sharpe_ratio)
        new_worst_dd ==
            IF profile.worst_drawdown = 0 THEN scorecard.max_drawdown
            ELSE Min2(profile.worst_drawdown * 10, scorecard.max_drawdown)
        new_total_pnl == profile.total_pnl * 10 + pnl
    IN [title |-> "Retail Speculator",
        seasons_played |-> new_seasons,
        lifetime_cagr |-> RoundDiv(new_cagr_num, new_cagr_den * 10),
        best_sharpe |-> RoundDiv(new_best_sharpe, 10),
        worst_drawdown |-> RoundDiv(new_worst_dd, 10),
        total_pnl |-> RoundDiv(new_total_pnl, 10)]

\* The mutant averages the old lifetime figure and the new season's CAGR
\* half and half.
update_career_after_season_halves(profile, scorecard) ==
    LET updated ==
            IF profile.seasons_played + 1 = 1
            THEN UpdatedStats(profile, scorecard.cagr, 1, scorecard)
            ELSE UpdatedStats(profile,
                              profile.lifetime_cagr * 10 + scorecard.cagr,
                              2, scorecard)
    IN [updated EXCEPT !.title = compute_title(updated)]

\* update_career_after_season(profile, scorecard)
update_career_after_season(profile, scorecard) ==
    LET new_seasons == profile.seasons_played + 1
        updated ==
            IF new_seasons = 1
            THEN UpdatedStats(profile, scorecard.cagr, 1, scorecard)
            ELSE UpdatedStats(profile,
                              profile.lifetime_cagr * 10
                                  * profile.seasons_played + scorecard.cagr,
                              new_seasons, scorecard)
    IN [updated EXCEPT !.title = compute_title(updated)]

-----------------------------------------------------------------------------
(* Specification SpecCareer: a career from its creation through its        *)
(* seasons, and compute_title on bounded profiles                          *)

\* Largest number of seasons played in a career
MaxSeasons == 5

\* ScoreCards of seasons: a good one, a better one, a losing one, a total
\* loss and a quiet one without drawdown
Scorecards ==
    {[initial_value |-> 1000000, final_value |-> 1050505, cagr |-> 10004,
      sharpe_ratio |-> 120000, max_drawdown |-> -8000],
     [initial_value |-> 1000000, final_value |-> 1100000, cagr |-> 20000,
      sharpe_ratio |-> 180000, max_drawdown |-> -5000],
     [initial_value |-> 1000000, final_value |-> 999123, cagr |-> -5003,
      sharpe_ratio |-> -50000, max_drawdown |-> -30000],
     [initial_value |-> 1000000, final_value |-> 0, cagr |-> -100000,
      sharpe_ratio |-> 0, max_drawdown |-> -100000],
     [initial_value |-> 1000000, final_value |-> 1001234, cagr |-> 3337,
      sharpe_ratio |-> 70000, max_drawdown |-> 0]}

TitleInputs ==
    [title : {"Retail Speculator"},
     seasons_played : {0, 1, 2, 3, 4, 5, 9, 10, 11},
     lifetime_cagr : {-500, 0, 1},
     best_sharpe : {0, 10000, 10001, 15000, 15001, 18000},
     worst_drawdown : {-3000, -2500, -2499, -2000, 0},
     total_pnl : {0}]

\* A career that is already VeteranSeasons seasons old: the profile that
\* the updates build from a fresh career over that many seasons with the
\* same scorecard
VeteranSeasons == 9

VeteranScorecard ==
    [initial_value |-> 1000000, final_value |-> 1100000, cagr |-> 20000,
     sharpe_ratio |-> 180000, max_drawdown |-> -5000]

RECURSIVE CareerAfter(_)
CareerAfter(q) ==
    IF q = <<>> THEN create_new_career
    ELSE update_career_after_season(CareerAfter(SubSeq(q, 1, Len(q) - 1)),
                                    q[Len(q)])

InitCareer ==
    /\ \/ pc = "career" /\ career = create_new_career /\ seasons = <<>>
       \/ /\ pc = "career"
          /\ seasons = [i \in 1..VeteranSeasons |-> VeteranScorecard]
          /\ career = CareerAfter(seasons)
       \/ pc = "title_input" /\ career \in TitleInputs /\ seasons = <<>>
    /\ title = "none"
    /\ rngLog = <<>>
    /\ AllocIdle /\ MacroIdle /\ EventIdle /\ ReturnIdle /\ RiskIdle
    /\ ShortIdle /\ RivalIdle /\ ScoreIdle /\ LoopIdle

\* run_game, cli/app.py:260: career = update_career_after_season(career,
\*     scorecard) at the end of a season
UpdateCareer ==
    /\ pc = "career"
    /\ \/ Len(seasons) < MaxSeasons
       \/ Len(seasons) \in VeteranSeasons..(VeteranSeasons + 1)
    /\ \E scorecard \in Scorecards :
          /\ career' = update_career_after_season(career, scorecard)
          /\ seasons' = Append(seasons, scorecard)
    /\ UNCHANGED <<allocVars, macroVars, eventVars, returnVars, riskVars,
                   shortVars, rivalVars, scoreVars, loopVars, title, pc,
                   rngLog>>

ComputeTitle ==
    /\ pc = "title_input"
    /\ title' = compute_title(career)
    /\ pc' = "titled"
    /\ UNCHANGED <<allocVars, macroVars, eventVars, returnVars, riskVars,
                   shortVars, rivalVars, scoreVars, loopVars, career, seasons,
                   rngLog>>

NextCareer == UpdateCareer \/ ComputeTitle

SpecCareer == InitCareer /\ [][NextCareer]_vars

\* Sum, largest and smallest of a field over the seasons played
RECURSIVE FieldSum(_, _)
FieldSum(q, f) == IF q = <<>> THEN 0 ELSE f[Head(q)] + FieldSum(Tail(q), f)

Pnl == [sc \in Scorecards |-> sc.final_value - sc.initial_value]

Cagr == [sc \in Scorecards |-> sc.cagr]

LargestSharpe(q) ==
    CHOOSE v \in {q[j].sharpe_ratio : j \in 1..Len(q)} :
        \A j \in 1..Len(q) : v >= q[j].sharpe_ratio

DeepestDrawdown(q) ==
    CHOOSE v \in {q[j].max_drawdown : j \in 1..Len(q)} :
        \A j \in 1..Len(q) : v <= q[j].max_drawdown

\* C18: after n >= 1 season updates of a fresh career seasons_played is n,
\* total_pnl is the sum of final value - initial value over the seasons
\* (within the rounding to the cent made at each update) and lifetime_cagr
\* is the plain arithmetic mean of the n seasons' CAGRs (within the
\* rounding to four decimals made at each update).
C18_CountSumAndMean ==
    (pc = "career" /\ seasons # <<>>) =>
        LET n == Len(seasons)
        IN /\ career.seasons_played = n
           /\ Abs(career.total_pnl * 10 - FieldSum(seasons, Pnl)) <= 5 * n
           /\ Abs(career.lifetime_cagr * 10 * n - FieldSum(seasons, Cagr))
                  <= 5 * n * n

\* C18 witness: three seasons with three different CAGRs whose mean is not
\* a multiple of 0.0001.
C18_Witness ==
    /\ pc = "career"
    /\ Len(seasons) = 3
    /\ seasons[1].cagr = 10004
    /\ seasons[2].cagr = -5003
    /\ seasons[3].cagr = 20000
    /\ career.seasons_played = 3
    /\ career.lifetime_cagr = 833
    /\ career.total_pnl = 14963

\* C19: after n >= 1 season updates of a fresh career best_sharpe is the
\* largest Sharpe ratio among the n scorecards and worst_drawdown the most
\* negative max-drawdown among them, the first season's values being taken
\* as they are and not compared with the 0.0 of a fresh profile.
C19_BestAndWorstOverSeasons ==
    (pc = "career" /\ seasons # <<>>) =>
        /\ career.best_sharpe = RoundDiv(LargestSharpe(seasons), 10)
        /\ career.worst_drawdown = RoundDiv(DeepestDrawdown(seasons), 10)

\* What the update does keep: worst_drawdown is the most negative
\* max-drawdown of the seasons, and best_sharpe the largest of 0.0 and the
\* seasons' Sharpe ratios.
WorstDrawdownAndBestSharpeFromZero ==
    (pc = "career" /\ seasons # <<>>) =>
        /\ career.worst_drawdown = RoundDiv(DeepestDrawdown(seasons), 10)
        /\ career.best_sharpe
               = RoundDiv(Max2(0, LargestSharpe(seasons)), 10)

\* Title tiers, from the most to the least exclusive
TierOf(profile) ==
    CASE /\ profile.seasons_played >= 10
         /\ profile.best_sharpe > 15000
         /\ profile.worst_drawdown > -2500 -> "Legendary Allocator"
      [] OTHER ->
            CASE profile.seasons_played >= 5 /\ profile.best_sharpe > 10000
                     -> "Institutional Strategist"
              [] OTHER ->
                    CASE /\ profile.seasons_played >= 3
                         /\ profile.lifetime_cagr > 0 -> "Macro Operator"
                      [] OTHER ->
                            CASE profile.seasons_played >= 1 -> "Junior PM"
                              [] OTHER -> "Retail Speculator"

\* C20: compute_title returns the first tier, from the most to the least
\* exclusive, whose predicate holds (Legendary Allocator: seasons >= 10,
\* best_sharpe > 1.5, worst_drawdown > -0.25; Institutional Strategist:
\* seasons >= 5, best_sharpe > 1.0; Macro Operator: seasons >= 3,
\* lifetime_cagr > 0; Junior PM: seasons >= 1; else Retail Speculator), and
\* the title a season update stores is the title computed from the updated
\* statistics.
C20_TitleIsFirstMatchingTier ==
    /\ pc = "titled" => title = TierOf(career)
    /\ (pc = "career" /\ seasons # <<>>) => career.title = TierOf(career)

\* C20 witness: 10 seasons, Sharpe 1.8 and drawdown -0.20 get the top tier.
C20_Witness ==
    /\ pc = "titled"
    /\ career.seasons_played = 10
    /\ career.best_sharpe = 18000
    /\ career.worst_drawdown = -2000
    /\ title = "Legendary Allocator"

\* C20 witness: the same profile with drawdown -0.30 gets the second tier.
C20_WitnessDrawdown ==
    /\ pc = "titled"
    /\ career.seasons_played = 10
    /\ career.best_sharpe = 18000
    /\ career.worst_drawdown = -3000
    /\ title = "Institutional Strategist"

\* C20 witness for the update: the fifth season lifts a career with a
\* Sharpe ratio above 1.0 to Institutional Strategist.
C20_WitnessUpdate ==
    /\ pc = "career"
    /\ Len(seasons) = 5
    /\ career.best_sharpe = 12000
    /\ career.title = "Institutional Strategist"

\* Position of a title in the order of CareerTitle
TitleRank(t) ==
    CASE t = "Retail Speculator" -> 0
      [] t = "Junior PM" -> 1
      [] t = "Macro Operator" -> 2
      [] t = "Institutional Strategist" -> 3
      [] t = "Legendary Allocator" -> 4

\* C25: the career title never regresses: the title after a season update
\* is the same tier or a higher tier than the title before it.
C25_TitleNeverRegresses ==
    [][(pc = "career" /\ career' # career) =>
           TitleRank(career'.title) >= TitleRank(career.title)]_vars

\* C25 as amended: a season update lowers the title in two cases only, from
\* Macro Operator to Junior PM when the lifetime CAGR has fallen to 0 or
\* below, and from Legendary Allocator to Institutional Strategist when the
\* worst drawdown has reached -25% or deeper; Junior PM and Institutional
\* Strategist, once held, are never lost.
C25_TitleRegressesOnlyOnCagrOrDrawdown ==
    [][(pc = "career" /\ career' # career) =>
           \/ TitleRank(career'.title) >= TitleRank(career.title)
           \/ /\ career.title = "Macro Operator"
              /\ career'.title = "Junior PM"
              /\ career.lifetime_cagr > 0
              /\ career'.lifetime_cagr <= 0
           \/ /\ career.title = "Legendary Allocator"
              /\ career'.title = "Institutional Strategist"
              /\ career.worst_drawdown > -2500
              /\ career'.worst_drawdown <= -2500]_vars

\* C25 witness: a Macro Operator of three winning seasons is a Junior PM
\* again after a fourth season that ends in a total loss.
C25_Witness ==
    /\ pc = "career"
    /\ Len(seasons) = 4
    /\ CareerAfter(SubSeq(seasons, 1, 3)).title = "Macro Operator"
    /\ career.lifetime_cagr <= 0
    /\ career.title = "Junior PM"

\* C25 witness: a Legendary Allocator of ten seasons is an Institutional
\* Strategist after an eleventh season with a 30% drawdown.
C25_WitnessLegendary ==
    /\ pc = "career"
    /\ Len(seasons) = 11
    /\ CareerAfter(SubSeq(seasons, 1, 10)).title = "Legendary Allocator"
    /\ career.worst_drawdown = -3000
    /\ career.title = "Institutional Strategist"

-----------------------------------------------------------------------------
(* cli/app.py, run_game lines 172-183: the short-seller analysis of the    *)
(* player's allocation and the sampling of the week's returns, both on the *)
(* session generator rng.  The generator is a fixed sequence of outputs    *)
(* (set by the seed) and a position; every rng.choice and rng.gauss call   *)
(* takes the next output.  The correlated normals and the returns of the   *)
(* week are functions of the macro state and of the seven values that      *)
(* rng.gauss returns.                                                      *)

\* Two runs of the same week of the same season (same seed, same macro
\* state, same history) in which the player submits different allocations
Worlds == {1, 2}

\* Outputs of the generator that one week's analysis and sampling can reach
StreamLen == 1 + Len(SECTOR_ORDER)

\* rng.gauss(0, 1) as a function of the generator output it consumes, in
\* whole standard deviations
gauss(u) == IF u < 16 THEN -1 ELSE IF u < 84 THEN 0 ELSE 1

\* sample_correlated_normals: [rng.gauss(0, 1) for _ in range(len(
\* SECTOR_ORDER))] read at position pos of the stream
z_independent(stream, pos) ==
    [i \in 1..Len(SECTOR_ORDER) |-> gauss(stream[pos + i])]

-----------------------------------------------------------------------------
(* Specification SpecMarket: lines 172-183 of run_game in two runs that    *)
(* differ in the player's allocation only                                  *)

MarketStreams ==
    {[i \in 1..StreamLen |-> 50],
     [i \in 1..StreamLen |-> IF i % 3 = 1 THEN 9
                             ELSE IF i % 3 = 2 THEN 65 ELSE 90],
     [i \in 1..StreamLen |-> IF i % 2 = 1 THEN 90 ELSE 9]}

MarketMacros ==
    {m \in MacroState : m.week = 0 /\ m.volatility_state = "normal"}

MarketHistories ==
    {<<>>, <<[s \in Sector |-> 100000], [s \in Sector |-> 200000]>>}

InitMarket ==
    /\ pc = "market"
    /\ \E stream \in MarketStreams, m \in MarketMacros,
          history \in MarketHistories :
          world \in [Worlds ->
                        [weights : ShortAllocations, stream : {stream},
                         macro : {m}, history : {history}, pos : {0},
                         at : {-1}, thesis : {NoValue}, z : {NoValue},
                         step : {"analyze"}]]
    /\ rngLog = <<>>
    /\ AllocIdle /\ MacroIdle /\ EventIdle /\ ReturnIdle /\ RiskIdle
    /\ ShortIdle /\ RivalIdle /\ ScoreIdle /\ CareerIdle /\ WeekIdle
    /\ SessionIdle /\ BridgeIdle

\* line 173: short_thesis = narrative_layer.short_seller.analyze(
\*     allocation, new_macro, game_state, rng); a KeyError of a check leaves
\* run_game
ShortThesis(w) ==
    /\ world[w].step = "analyze"
    /\ LET me == world[w]
           r == analyze(me.weights, me.macro, me.history,
                        <<"Tech", "Energy", "Industrials">>,
                        me.stream[me.pos + 1])
       IN world' = [world EXCEPT ![w] =
                       [me EXCEPT !.thesis = r,
                                  !.pos = me.pos + r.draws,
                                  !.step = IF r.kind = "KeyError"
                                           THEN "raised" ELSE "returns"]]
    /\ UNCHANGED <<allocVars, macroVars, eventVars, returnVars, riskVars,
                   shortVars, rivalVars, scoreVars, careerVars, weekVars,
                   sessionVars, bridgeVars, pc, rngLog>>

\* line 182: base_returns = generate_sector_returns(new_macro, rng), up to
\* the sampling of the normals
SampleReturns(w) ==
    /\ world[w].step = "returns"
    /\ LET me == world[w]
       IN world' = [world EXCEPT ![w] =
                       [me EXCEPT !.at = me.pos,
                                  !.z = z_independent(me.stream, me.pos),
                                  !.pos = me.pos + Len(SECTOR_ORDER),
                                  !.step = "sampled"]]
    /\ UNCHANGED <<allocVars, macroVars, eventVars, returnVars, riskVars,
                   shortVars, rivalVars, scoreVars, careerVars, weekVars,
                   sessionVars, bridgeVars, pc, rngLog>>

NextMarket == \E w \in Worlds : ShortThesis(w) \/ SampleReturns(w)

SpecMarket == InitMarket /\ [][NextMarket]_vars

SamplingShiftedByThesis ==
    \A w \in Worlds :
        world[w].step = "sampled" =>
            world[w].at = (IF world[w].thesis.kind = "thesis" THEN 1 ELSE 0)

\* Reachable: a balanced and a concentrated allocation in the same week of
\* the same season get different normals.
MarketDiffers ==
    /\ \A w \in Worlds : world[w].step = "sampled"
    /\ world[1].thesis.kind = "none"
    /\ world[2].thesis.kind = "thesis"
    /\ world[1].z # world[2].z


-----------------------------------------------------------------------------
(* Specification SpecWeek: the bookkeeping of the weekly loop of run_game
   (cli/app.py lines 116-118 and 185-223), week after week. The allocation
   the player confirmed and the adj returns of the week are its inputs.
   Dollar amounts are in cents, weights in hundredths of a percent, sector
   returns in hundredths and portfolio returns in millionths. *)

\* config.total_weeks of the seasons explored
LoopWeeks == 2

\* GameConfig.starting_cash, in cents
starting_cash == 100000000

\* GameCompetitionLayer.__init__: rival_value = 1_000_000.0, in cents
RIVAL_START_VALUE == 100000000

\* PortfolioState.week: Field(ge=0, le=26)
PORTFOLIO_MAX_WEEK == 26

\* v * w / 10000 for v >= 0, rounded toward zero, in steps that stay within
\* 32 bits
Scale4(v, w) ==
    LET a == Abs(w)
        q == (v \div 10000) * a + ((v % 10000) * a) \div 10000
    IN IF w >= 0 THEN q ELSE -q

\* v * f / 1000000 for v >= 0 and f >= 0, rounded down, in steps that stay
\* within 32 bits
Scale6(v, f) ==
    LET vh == v \div 1000
        vl == v % 1000
        fh == f \div 1000
        fl == f % 1000
        m == vh * fl + vl * fh
    IN vh * fh + (m \div 1000) + ((m % 1000) * 1000 + vl * fl) \div 1000000

\* sum(fracs[s] * adj[s] for s in Sector), in millionths
portfolio_return(w, adj) ==
    SumOver([s \in Sector |-> w[s] * adj[s]], Sector)

\* value_before * (1 + portfolio_return) of line 193 and of
\* process_week line 48; a negative product is kept negative
Grow(value_before, ret) ==
    IF 1000000 + ret >= 0 THEN Scale6(value_before, 1000000 + ret)
    ELSE -Scale6(value_before, -(1000000 + ret))

\* max(0.0, x) of line 193
FloorAtZero(x) == Max2(0, x)

\* PortfolioState(cash, holdings, total_value, week): the field constraints
\* cash >= 0 and 0 <= week <= 26; a violation raises ValidationError
NewPortfolioState(cash, holdings, total_value, week) ==
    IF cash < 0 \/ week < 0 \/ week > PORTFOLIO_MAX_WEEK
    THEN [status |-> "rejected"]
    ELSE [status |-> "accepted", cash |-> cash, holdings |-> holdings,
          total_value |-> total_value, week |-> week]

\* run_game lines 80-101: GameState at week 0, everything in cash
NewGameState ==
    [current_week |-> 0,
     portfolio |-> [cash |-> starting_cash,
                    holdings |-> [s \in Sector |-> 0],
                    total_value |-> starting_cash, week |-> 0],
     history |-> <<>>,
     weekly_values |-> <<starting_cash>>]

\* GameCompetitionLayer("momentum") after construction
NewCompetition ==
    [rival_value |-> RIVAL_START_VALUE,
     rival_values |-> <<RIVAL_START_VALUE>>,
     result |-> NoValue]

\* [h.adjusted_returns.returns for h in game_state.history]
AdjustedOf(history) == [i \in 1..Len(history) |-> history[i].adjusted_returns]

\* Confirmed allocations, <<Tech, Energy, Financials, every other sector>>:
\* balanced, one sector, leveraged long-short at 200% gross, the same one
\* hundredth over it, one hundredth over 100% net, and 400% gross (which the
\* validator turns away)
WeekWeightTuples ==
    {<<1428, 1428, 1428, 1428>>,
     <<10000, 0, 0, 0>>,
     <<15000, -5000, 0, 0>>,
     <<15000, -5000, -1, 0>>,
     <<10001, 0, 0, 0>>,
     <<25000, -5000, -5000, -2500>>}

WeekWeights(t) ==
    [s \in Sector |-> CASE s = "Tech" -> t[1]
                        [] s = "Energy" -> t[2]
                        [] s = "Financials" -> t[3]
                        [] OTHER -> t[4]]

WeekAllocations ==
    {WeekWeights(t) : t \in {u \in WeekWeightTuples :
                                NewAllocation(WeekWeights(u)).status = "accepted"}}

\* Adjusted returns of a week, <<Tech, Energy, every other sector>>, in
\* hundredths: the clamp of generate_sector_returns keeps them in -30..30
\* before events
WeekReturnTuples ==
    {<<0, 0, 0>>, <<-30, 30, 30>>, <<30, -30, -30>>, <<5, 1, 1>>,
     <<20, -5, 0>>}

WeekReturns ==
    {[s \in Sector |-> CASE s = "Tech" -> t[1]
                         [] s = "Energy" -> t[2]
                         [] OTHER -> t[3]] : t \in WeekReturnTuples}

\* Outcomes of the rng.uniform calls of the rival, one per sector
RivalNoise ==
    {[s \in Sector |-> IF s = "Tech" THEN u ELSE 50] : u \in {0, 99}}

InitWeek ==
    /\ pc = "loop"
    /\ game_state = NewGameState
    /\ competition = NewCompetition
    /\ rngLog = <<>>
    /\ AllocIdle /\ MacroIdle /\ EventIdle /\ ReturnIdle /\ RiskIdle
    /\ ShortIdle /\ RivalIdle /\ ScoreIdle /\ CareerIdle /\ MarketIdle
    /\ SessionIdle /\ BridgeIdle

\* lines 116-118 and 185-218: the week starts, the return of the confirmed
\* allocation is computed, the portfolio, weekly_values and history are
\* updated
BookWeek ==
    /\ pc = "loop"
    /\ game_state.current_week < LoopWeeks
    /\ \E w \in WeekAllocations, adj \in WeekReturns :
        LET week == game_state.current_week + 1
            ret == portfolio_return(w, adj)
            value_before == game_state.portfolio.total_value
            new_value == FloorAtZero(Grow(value_before, ret))
            new_cash == Scale4(new_value, cash_weight(w))
            new_holdings == [s \in Sector |-> Scale4(new_value, w[s])]
            state == NewPortfolioState(new_cash, new_holdings, new_value,
                                       week)
            week_result ==
                [week |-> week, allocation |-> w,
                 adjusted_returns |-> adj,
                 portfolio_return |-> ret,
                 portfolio_value_before |-> value_before,
                 portfolio_value_after |-> new_value]
        IN IF state.status = "rejected"
           THEN /\ game_state' = [game_state EXCEPT !.current_week = week]
                /\ pc' = "raised"
           ELSE /\ game_state' =
                    [current_week |-> week,
                     portfolio |-> [cash |-> state.cash,
                                    holdings |-> state.holdings,
                                    total_value |-> state.total_value,
                                    week |-> state.week],
                     history |-> Append(game_state.history, week_result),
                     weekly_values |->
                         Append(game_state.weekly_values, new_value)]
                /\ pc' = "rival"
    /\ UNCHANGED <<allocVars, macroVars, eventVars, returnVars, riskVars,
                   shortVars, rivalVars, scoreVars, careerVars, marketVars,
                   sessionVars, bridgeVars, competition, rngLog>>

\* lines 221-223, GameCompetitionLayer.process_week: the rival decides from
\* game_state, its value grows by the return of its allocation on the same
\* adj returns; then the loop goes on to the next week
RivalWeekStep ==
    /\ pc = "rival"
    /\ \E r \in RivalNoise :
        LET history == AdjustedOf(game_state.history)
            adj == game_state.history[Len(game_state.history)]
                       .adjusted_returns
            rival_alloc == _momentum_decide(history, r)
            ret == portfolio_return(rival_alloc, adj)
            value_before == competition.rival_value
            value_after == Grow(value_before, ret)
        IN competition' =
               [rival_value |-> value_after,
                rival_values |-> Append(competition.rival_values,
                                        value_after),
                result |-> [week |-> game_state.current_week,
                            allocation |-> rival_alloc,
                            portfolio_return |-> ret,
                            portfolio_value |-> value_after,
                            portfolio_value_before |-> value_before]]
    /\ pc' = IF game_state.current_week < LoopWeeks THEN "loop"
             ELSE "loop_done"
    /\ UNCHANGED <<allocVars, macroVars, eventVars, returnVars, riskVars,
                   shortVars, rivalVars, scoreVars, careerVars, marketVars,
                   sessionVars, bridgeVars, game_state, rngLog>>

NextWeek == BookWeek \/ RivalWeekStep

SpecWeek == InitWeek /\ [][NextWeek]_vars

\* The processing of week game_state.current_week has ended, by reaching
\* line 218 or by an exception.
WeekEnded ==
    /\ pc \in {"rival", "loop", "loop_done", "raised"}
    /\ game_state.current_week >= 1

\* The entries of the state after week w = current_week, as C23 lists them
WeekBooked ==
    LET w == game_state.current_week
        h == game_state.history
        p == game_state.portfolio
    IN /\ Len(h) = w
       /\ Len(game_state.weekly_values) = w + 1
       /\ h[w].week = w
       /\ h[w].portfolio_value_before = game_state.weekly_values[w]
       /\ h[w].portfolio_value_after = game_state.weekly_values[w + 1]
       /\ p.total_value = game_state.weekly_values[w + 1]
       /\ p.total_value =
              Max2(0, Grow(h[w].portfolio_value_before,
                           portfolio_return(h[w].allocation,
                                            h[w].adjusted_returns)))
       /\ \A s \in Sector :
              p.holdings[s] = Scale4(p.total_value, h[w].allocation[s])
       /\ p.cash = Scale4(p.total_value, cash_weight(h[w].allocation))
       /\ p.cash >= 0
       /\ Abs(p.cash + SumOver(p.holdings, Sector) - p.total_value)
              <= Cardinality(Sector) + 1

\* Earlier history entries and earlier weekly values stay as they are.
EarlierKept ==
    /\ Len(game_state'.history) >= Len(game_state.history)
    /\ \A i \in 1..Len(game_state.history) :
           game_state'.history[i] = game_state.history[i]
    /\ Len(game_state'.weekly_values) >= Len(game_state.weekly_values)
    /\ \A i \in 1..Len(game_state.weekly_values) :
           game_state'.weekly_values[i] = game_state.weekly_values[i]

C23_WeekLost ==
    /\ pc = "raised"
    /\ game_state.current_week = Len(game_state.history) + 1

RivalReadsOwnWeek ==
    competition.result # NoValue =>
        \E r \in RivalNoise :
            competition.result.allocation =
                _momentum_decide(
                    AdjustedOf(SubSeq(game_state.history, 1,
                                      competition.result.week)), r)

\* The rival's value moved by at most 30% of the value before.
RivalFactorBounded(before, after) ==
    /\ after - before <= (3 * before) \div 10 + 1
    /\ before - after <= (3 * before) \div 10 + 1

\* C28: for every accepted allocation with gross exposure <= 200% and
\* adjusted returns within +/-30% the weekly portfolio return is within
\* [-0.60, +0.60]; for every accepted allocation the product of line 193
\* is positive, so the floor is not the branch taken and total_value stays
\* > 0; the rival's allocation is long-only, its weekly factor is within
\* [0.70, 1.30] and its value stays > 0.
C28_ValueStaysPositive ==
    /\ game_state.portfolio.total_value > 0
    /\ \A i \in 1..Len(game_state.history) :
        LET h == game_state.history[i]
        IN /\ gross_exposure(h.allocation) <= MAX_GROSS_EXPOSURE =>
                  Abs(h.portfolio_return)
                      <= (MAX_WEEKLY_RETURN \div 100000) * MAX_GROSS_EXPOSURE
           /\ Abs(h.portfolio_return)
                  <= (MAX_WEEKLY_RETURN \div 100000)
                         * gross_exposure(h.allocation)
           /\ Grow(h.portfolio_value_before, h.portfolio_return) > 0
           /\ h.portfolio_value_after
                  = Grow(h.portfolio_value_before, h.portfolio_return)
    /\ \A i \in 1..Len(game_state.weekly_values) :
           game_state.weekly_values[i] > 0
    /\ competition.rival_value > 0
    /\ \A i \in 1..Len(competition.rival_values) :
           /\ competition.rival_values[i] > 0
           /\ i > 1 => RivalFactorBounded(competition.rival_values[i - 1],
                                          competition.rival_values[i])
    /\ competition.result # NoValue =>
           /\ \A s \in Sector : competition.result.allocation[s] > 0
           /\ Abs(competition.result.portfolio_return)
                  <= (MAX_WEEKLY_RETURN \div 100000) * 10000

\* C28 witness: two weeks in a row the player held 150% long and 50% short
\* and every position lost 30%: the value is 16% of the starting cash; the
\* rival, long in every sector, went through the same two weeks.
C28_Witness ==
    /\ Len(game_state.history) = 2
    /\ \A i \in 1..2 :
           /\ gross_exposure(game_state.history[i].allocation)
                  = MAX_GROSS_EXPOSURE
           /\ game_state.history[i].portfolio_return = -600000
    /\ game_state.portfolio.total_value = 16000000
    /\ competition.result # NoValue
    /\ competition.result.week = 2
    /\ Len(competition.rival_values) = 3

\* C28, the week at the validator's tolerance: gross exposure 200.01% and
\* every position at -30% give a return of -0.60003.
C28_WitnessTolerance ==
    \E i \in 1..Len(game_state.history) :
        /\ gross_exposure(game_state.history[i].allocation)
               = MAX_GROSS_EXPOSURE + 1
        /\ game_state.history[i].portfolio_return = -600030

-----------------------------------------------------------------------------
(* run_game (cli/app.py lines 47-272) as a whole, for two sessions of the
   same player on the same database file. Each session has its own
   GameRepository connection; every repository call commits on its own. *)

Sessions == {1, 2}

\* Largest config.total_weeks of the sessions explored
SeasonWeeks == 2

\* MacroState.week: Field(ge=0, le=26)
MACRO_MAX_WEEK == 26

\* compute_scorecard([starting_cash]): no week was played; compute_cagr
\* returns -1.0 for weeks <= 0, the drawdown of a single value and the
\* Sharpe ratio of no returns are 0.0
ZeroWeekScorecard ==
    [initial_value |-> 1000000, final_value |-> 1000000, cagr |-> -100000,
     sharpe_ratio |-> 0, max_drawdown |-> 0]

\* Scorecards of seasons with weeks played: a winning and a losing one
SeasonScorecards == {sc \in Scorecards : sc.cagr \in {20000, -5003}}

\* The career row of the player before the sessions start: none, or the
\* one of a player with three seasons
DbCareers ==
    {NoValue,
     CareerAfter(<<VeteranScorecard, VeteranScorecard, VeteranScorecard>>)}

\* The fields of ExpandedMetrics
ExpandedMetrics ==
    {"rolling_volatility", "rolling_sharpe", "drawdown_series",
     "concentration_scores", "current_rolling_vol", "current_rolling_sharpe",
     "current_drawdown", "current_concentration"}

\* The attributes of metrics that display_expanded_analytics reads
DisplayedMetrics ==
    {"current_rolling_vol", "current_rolling_sharpe", "current_drawdown",
     "current_concentration", "current_gross_exposure"}

\* display_expanded_analytics(expanded): reading an attribute the model
\* class does not have raises AttributeError
display_expanded_analytics ==
    IF DisplayedMetrics \subseteq ExpandedMetrics THEN "ok"
    ELSE "AttributeError"

\* repo.save_game(game_state): upsert of current_week and is_complete; the
\* columns of the scorecard are left as they are
save_game(games, s, me) ==
    [games EXCEPT ![s] =
        [current_week |-> me.current_week,
         is_complete |-> me.is_complete,
         scorecard |-> IF games[s] = NoValue THEN NoValue
                       ELSE games[s].scorecard]]

\* repo.save_scorecard(game_id, scorecard): the final figures, is_complete
\* = 1
save_scorecard(games, s, scorecard) ==
    [games EXCEPT ![s] = [games[s] EXCEPT !.scorecard = scorecard,
                                          !.is_complete = TRUE]]

\* repo.load_career(player_name) or create_new_career(player_name)
load_career(row) == IF row = NoValue THEN create_new_career ELSE row

InitSessions ==
    /\ pc = "sessions"
    /\ db \in [games : {[s \in Sessions |-> NoValue]}, career : DbCareers]
    /\ session \in
           [Sessions ->
               [pc : {"init"}, total_weeks : 0..SeasonWeeks,
                current_week : {0}, is_complete : {FALSE},
                weeks_done : {<<>>}, career : {NoValue},
                scorecard : {NoValue}, raised : {NoValue}, saves : {0}]]
    /\ rngLog = <<>>
    /\ AllocIdle /\ MacroIdle /\ EventIdle /\ ReturnIdle /\ RiskIdle
    /\ ShortIdle /\ RivalIdle /\ ScoreIdle /\ CareerIdle /\ MarketIdle
    /\ WeekIdle /\ BridgeIdle

\* lines 63-109: the game row is written, the career is loaded or created
StartSession(s) ==
    /\ session[s].pc = "init"
    /\ db' = [db EXCEPT !.games = save_game(db.games, s, session[s])]
    /\ session' = [session EXCEPT ![s].career = load_career(db.career),
                                  ![s].pc = "loop"]
    /\ UNCHANGED <<allocVars, macroVars, eventVars, returnVars, riskVars,
                   shortVars, rivalVars, scoreVars, careerVars, marketVars,
                   weekVars, bridgeVars, pc, rngLog>>

\* The exception that ends the body of the loop for the given week, or "ok":
\* MacroState(week=week) at line 121, the narrative for _equal_allocation()
\* at line 138, generate_sector_returns at line 182
WeekOutcome(week) ==
    IF week > MACRO_MAX_WEEK THEN "ValidationError"
    ELSE IF _equal_allocation.status = "rejected" THEN "ValueError"
    ELSE IF generate_sector_returns(
                [regime |-> INITIAL_REGIME,
                 volatility_state |-> INITIAL_VOL_STATE,
                 rate_direction |-> INITIAL_RATE_DIR, week |-> week],
                [t \in Sector |-> 0]).status # "ok" THEN "KeyError"
    ELSE "ok"

\* The state of the session and of its games row after the body of the
\* loop for one week with the given outcome: the week is booked and saved
\* (line 228), or the exception leaves run_game through finally
AfterWeek(s, outcome) ==
    LET me == session[s]
        week == me.current_week + 1
        started == [me EXCEPT !.current_week = week]
        booked == [started EXCEPT !.weeks_done = Append(@, week)]
    IN IF outcome = "ok"
       THEN /\ session' = [session EXCEPT ![s] = booked]
            /\ db' = [db EXCEPT !.games = save_game(db.games, s, booked)]
       ELSE /\ session' = [session EXCEPT ![s] =
                              [started EXCEPT !.pc = "raised",
                                              !.raised = outcome]]
            /\ db' = db

\* lines 116-237: one pass of the weekly loop
ProcessWeek(s) ==
    /\ session[s].pc = "loop"
    /\ session[s].current_week < session[s].total_weeks
    /\ AfterWeek(s, WeekOutcome(session[s].current_week + 1))
    /\ UNCHANGED <<allocVars, macroVars, eventVars, returnVars, riskVars,
                   shortVars, rivalVars, scoreVars, careerVars, marketVars,
                   weekVars, bridgeVars, pc, rngLog>>

\* lines 239-244: the loop is over; the game is marked complete, the
\* scorecard computed and stored
CompleteSeason(s) ==
    /\ session[s].pc = "loop"
    /\ session[s].current_week >= session[s].total_weeks
    /\ \E sc \in IF session[s].weeks_done = <<>> THEN {ZeroWeekScorecard}
                 ELSE SeasonScorecards :
        LET me == [session[s] EXCEPT !.is_complete = TRUE,
                                     !.scorecard = sc, !.pc = "complete"]
        IN /\ session' = [session EXCEPT ![s] = me]
           /\ db' = [db EXCEPT !.games =
                        save_game(save_scorecard(db.games, s, sc), s, me)]
    /\ UNCHANGED <<allocVars, macroVars, eventVars, returnVars, riskVars,
                   shortVars, rivalVars, scoreVars, careerVars, marketVars,
                   weekVars, bridgeVars, pc, rngLog>>

\* lines 246-262 and finally: the expanded analytics when there is a weekly
\* return to show, then the career update and its save
FinishCareer(s) ==
    /\ session[s].pc = "complete"
    /\ IF session[s].weeks_done # <<>> /\ display_expanded_analytics # "ok"
       THEN /\ session' = [session EXCEPT
                              ![s].pc = "raised",
                              ![s].raised = display_expanded_analytics]
            /\ db' = db
       ELSE LET career_after ==
                    update_career_after_season(session[s].career,
                                               session[s].scorecard)
            IN /\ session' = [session EXCEPT ![s].career = career_after,
                                             ![s].saves = @ + 1,
                                             ![s].pc = "returned"]
               /\ db' = [db EXCEPT !.career = career_after]
    /\ UNCHANGED <<allocVars, macroVars, eventVars, returnVars, riskVars,
                   shortVars, rivalVars, scoreVars, careerVars, marketVars,
                   weekVars, bridgeVars, pc, rngLog>>

\* lines 264-272: KeyboardInterrupt inside the try block; the game row is
\* saved and run_game returns. The interrupt reaches run_game on the main
\* thread of the command line, which accepts no season of 0 weeks; the web
\* endpoint runs it on a worker thread.
Interrupt(s) ==
    /\ session[s].pc \in {"loop", "complete"}
    /\ session[s].total_weeks >= 1
    /\ db' = [db EXCEPT !.games = save_game(db.games, s, session[s])]
    /\ session' = [session EXCEPT ![s].pc = "paused"]
    /\ UNCHANGED <<allocVars, macroVars, eventVars, returnVars, riskVars,
                   shortVars, rivalVars, scoreVars, careerVars, marketVars,
                   weekVars, bridgeVars, pc, rngLog>>

NextGame ==
    \E s \in Sessions :
        \/ StartSession(s)
        \/ ProcessWeek(s)
        \/ CompleteSeason(s)
        \/ FinishCareer(s)
        \/ Interrupt(s)

SpecGame == InitSessions /\ [][NextGame]_vars

\* C30: for every season length N >= 1 and a player who is never
\* interrupted, run_game processes weeks 1..N in order, each once, then
\* marks the game complete and computes the scorecard; no week's
\* processing fails.
C30_SeasonRunsToCompletion ==
    \A s \in Sessions :
        LET me == session[s]
        IN me.total_weeks >= 1 =>
               /\ me.pc # "raised"
               /\ me.weeks_done = [k \in 1..Len(me.weeks_done) |-> k]
               /\ me.pc \in {"complete", "returned"} =>
                      /\ Len(me.weeks_done) = me.total_weeks
                      /\ me.is_complete
                      /\ me.scorecard # NoValue

\* C30, what the code does: the first week of every season of one week or
\* more ends with the ValueError of _equal_allocation(); no week is ever
\* booked.
FirstWeekRaises ==
    \A s \in Sessions :
        /\ session[s].weeks_done = <<>>
        /\ session[s].pc = "raised" =>
               /\ session[s].raised = "ValueError"
               /\ session[s].current_week = 1
               /\ ~db.games[s].is_complete
        /\ session[s].pc \in {"complete", "returned"} =>
               session[s].total_weeks = 0

\* C30, the state the claim excludes: a season of one week or more stopped
\* in its first week by an exception, nothing interrupted it.
C30_SeasonStopped ==
    \E s \in Sessions :
        /\ session[s].total_weeks >= 1
        /\ session[s].pc = "raised"
        /\ session[s].current_week = 1

\* C29: when two sessions of the same player have both completed, the
\* stored career counts both seasons: seasons_played has grown by 2 and
\* total_pnl by the P&L of both, whatever the order of the loads and saves.
C29_BothSeasonsCounted ==
    (\A s \in Sessions : session[s].pc = "returned") =>
        \E row \in DbCareers :
            LET before == load_career(row)
                pnl(s) == session[s].scorecard.final_value
                              - session[s].scorecard.initial_value
            IN /\ db.career.seasons_played = before.seasons_played + 2
               /\ db.career.total_pnl = before.total_pnl + pnl(1) + pnl(2)

\* C29, the lost update: both sessions completed and saved their career,
\* and the stored career is exactly what one of them computed from the
\* career it loaded at its start.
C29_LostUpdate ==
    /\ \A s \in Sessions : session[s].pc = "returned" /\ session[s].saves = 1
    /\ \E row \in DbCareers, s \in Sessions :
           db.career = update_career_after_season(load_career(row),
                                                  session[s].scorecard)

-----------------------------------------------------------------------------
(* Specification SpecSeason: run_game with a weekly loop whose passes end
   without an exception, as lines 239-262 expect them *)

\* lines 116-237: one pass of the weekly loop in which nothing is raised
WeekPlayed(s) ==
    /\ session[s].pc = "loop"
    /\ session[s].current_week < session[s].total_weeks
    /\ AfterWeek(s, "ok")
    /\ UNCHANGED <<allocVars, macroVars, eventVars, returnVars, riskVars,
                   shortVars, rivalVars, scoreVars, careerVars, marketVars,
                   weekVars, bridgeVars, pc, rngLog>>

NextSeason ==
    \E s \in Sessions :
        \/ StartSession(s)
        \/ WeekPlayed(s)
        \/ CompleteSeason(s)
        \/ FinishCareer(s)
        \/ Interrupt(s)

SpecSeason == InitSessions /\ [][NextSeason]_vars

\* run_game has returned or was left by an exception.
Ended(s) == session[s].pc \in {"returned", "raised", "paused"}

C21_CompleteWithoutCareer ==
    \E s \in Sessions :
        /\ session[s].pc = "raised"
        /\ session[s].raised = "AttributeError"
        /\ Len(session[s].weeks_done) = session[s].total_weeks
        /\ db.games[s].is_complete
        /\ db.games[s].scorecard # NoValue
        /\ session[s].saves = 0

\* C21, what the code does: a season with a played week never reaches its
\* career update.
PlayedSeasonNeverSaved ==
    \A s \in Sessions :
        session[s].weeks_done # <<>> => session[s].saves = 0

-----------------------------------------------------------------------------
(* Specification SpecBridge: web/server.py, one connection of play_game_ws.
   The browser sends text frames and may disconnect; receive_loop feeds
   input_queue; the game thread prints into the bridge's buffer and reads
   through sync_input and sync_confirm as prompt_allocation
   (cli/prompts.py) and the weekly loop of run_game do. *)

\* Text frames the browser sends over one connection
MaxMessages == 2

\* Weeks of the season played over the connection
BridgeWeeks == 2

\* Texts of the frames: an empty one, a number, "e" (edit) and "y" (yes);
\* the navigation commands "b" and "r" of prompt_allocation, which only
\* move the entry to another sector, are left out
BrowserTexts == {"", "10", "e", "y"}

NonEmptyText(m) == m # ""

IsPrefix(p, q) == Len(p) <= Len(q) /\ SubSeq(q, 1, Len(p)) = p

\* receive_loop, except WebSocketDisconnect: the sentinel is put on the
\* queue. The mutant ends the loop without it.
on_disconnect_silent(queue) == queue

on_disconnect(queue) == Append(queue, "")

\* flush_output on a buffer: nothing to do when it is empty; send_text
\* delivers while the browser is connected; after its close the call made
\* through the ASGI server either raises or is dropped
FlushOutcomes(buffer, connected) ==
    IF buffer = <<>> THEN {"none"}
    ELSE IF connected THEN {"sent"}
    ELSE {"raised", "dropped"}

\* The bridge, the browser and the game thread after flush_output with the
\* given outcome; printed chunks are numbered in the order of printing
Flushed(b, c, g, outcome) ==
    CASE outcome = "none" -> [bridge |-> b, client |-> c, game |-> g]
      [] outcome = "sent" ->
            [bridge |-> [b EXCEPT !.output_buffer = <<>>],
             client |-> [c EXCEPT !.output = @ \o b.output_buffer],
             game |-> g]
      [] outcome = "dropped" ->
            [bridge |-> [b EXCEPT !.output_buffer = <<>>],
             client |-> c,
             game |-> [g EXCEPT !.lost = @ + Len(b.output_buffer)]]
      [] outcome = "raised" ->
            [bridge |-> b, client |-> c,
             game |-> [g EXCEPT !.pc = "raised", !.raised = "SendError"]]

\* console.print: one more chunk in the buffer
Printed(b, g) ==
    [bridge |-> [b EXCEPT !.output_buffer = Append(@, g.printed + 1)],
     game |-> [g EXCEPT !.printed = @ + 1]]

InitBridge ==
    /\ pc = "bridge"
    /\ bridge = [input_queue |-> <<>>, output_buffer |-> <<>>,
                 recv_task |-> "running", keepalive_task |-> "running",
                 endpoint |-> "running"]
    /\ client = [connected |-> TRUE, sent |-> <<>>, frames |-> <<>>,
                 output |-> <<>>]
    \* the game thread enters prompt_allocation, or is at its last sector
    /\ game \in [pc : {"prompt"}, call : {"sector"},
                 i : {0, Len(SECTOR_ORDER) - 1}, week : 1..BridgeWeeks,
                 revised : {FALSE}, inputs : {<<>>}, printed : {0},
                 lost : {0}, raised : {NoValue}]
    /\ rngLog = <<>>
    /\ AllocIdle /\ MacroIdle /\ EventIdle /\ ReturnIdle /\ RiskIdle
    /\ ShortIdle /\ RivalIdle /\ ScoreIdle /\ CareerIdle /\ MarketIdle
    /\ WeekIdle /\ SessionIdle

\* The browser sends a text frame.
BrowserSend ==
    /\ client.connected
    /\ Len(client.sent) < MaxMessages
    /\ \E m \in BrowserTexts :
           client' = [client EXCEPT
                         !.sent = Append(@, m),
                         !.frames = Append(@, [type |-> "text",
                                               data |-> m])]
    /\ UNCHANGED <<allocVars, macroVars, eventVars, returnVars, riskVars,
                   shortVars, rivalVars, scoreVars, careerVars, marketVars,
                   weekVars, sessionVars, bridge, game, pc, rngLog>>

\* The browser closes the connection.
BrowserDisconnect ==
    /\ client.connected
    /\ client' = [client EXCEPT
                     !.connected = FALSE,
                     !.frames = Append(@, [type |-> "disconnect"])]
    /\ UNCHANGED <<allocVars, macroVars, eventVars, returnVars, riskVars,
                   shortVars, rivalVars, scoreVars, careerVars, marketVars,
                   weekVars, sessionVars, bridge, game, pc, rngLog>>

\* receive_loop, one turn: an empty text is skipped, any other text is put
\* on the queue; at the disconnect the sentinel is put and the loop ends
ReceiveLoop ==
    /\ bridge.recv_task = "running"
    /\ client.frames # <<>>
    /\ LET frame == Head(client.frames)
       IN bridge' =
              IF frame.type = "disconnect"
              THEN [bridge EXCEPT
                       !.input_queue = on_disconnect(@),
                       !.recv_task = "done"]
              ELSE IF frame.data = "" THEN bridge
              ELSE [bridge EXCEPT !.input_queue = Append(@, frame.data)]
    /\ client' = [client EXCEPT !.frames = Tail(@)]
    /\ UNCHANGED <<allocVars, macroVars, eventVars, returnVars, riskVars,
                   shortVars, rivalVars, scoreVars, careerVars, marketVars,
                   weekVars, sessionVars, game, pc, rngLog>>

\* keepalive_loop, one turn: the ping is sent; a failure ends the loop
KeepalivePing ==
    /\ bridge.keepalive_task = "running"
    /\ bridge' = IF client.connected THEN bridge
                 ELSE [bridge EXCEPT !.keepalive_task = "done"]
    /\ UNCHANGED <<allocVars, macroVars, eventVars, returnVars, riskVars,
                   shortVars, rivalVars, scoreVars, careerVars, marketVars,
                   weekVars, sessionVars, client, game, pc, rngLog>>

\* sync_input lines 74-79, sync_confirm lines 84-89: the prompt is printed,
\* the buffer flushed, the read of the queue scheduled
RequestInput ==
    /\ game.pc = "prompt"
    /\ LET p == Printed(bridge, game)
       IN \E outcome \in FlushOutcomes(p.bridge.output_buffer,
                                       client.connected) :
           LET f == Flushed(p.bridge, client, p.game, outcome)
           IN /\ bridge' = f.bridge
              /\ client' = f.client
              /\ game' = IF f.game.pc = "raised" THEN f.game
                         ELSE [f.game EXCEPT !.pc = "waiting"]
    /\ UNCHANGED <<allocVars, macroVars, eventVars, returnVars, riskVars,
                   shortVars, rivalVars, scoreVars, careerVars, marketVars,
                   weekVars, sessionVars, pc, rngLog>>

\* prompt_allocation lines 75-126 on the answer raw at sector i: an empty
\* answer (auto-complete at the last sector, else "Enter a number"), a
\* number, or a text that is no number; after the last sector the summary
\* is shown and the confirmation asked
AfterSector(g, raw) ==
    LET n == Len(SECTOR_ORDER)
        entered == [g EXCEPT !.i = @ + 1,
                             !.call = IF g.i + 1 = n THEN "confirm"
                                      ELSE "sector"]
    IN CASE raw = "" /\ g.i = n - 1 -> entered
         [] raw = "" -> g
         [] raw = "10" -> entered
         [] OTHER -> g

\* prompt_allocation lines 160-164: "e" starts the entry again, any other
\* answer returns the allocation
AfterConfirm(g, raw) ==
    IF raw = "e" THEN [g EXCEPT !.call = "sector", !.i = 0]
    ELSE [g EXCEPT !.pc = IF g.revised THEN "results" ELSE "risk"]

\* sync_confirm line 90-91 and run_game lines 163-164: yes starts a new
\* entry, anything else goes on with the week
AfterRevise(g, raw) ==
    IF raw = "y" THEN [g EXCEPT !.call = "sector", !.i = 0]
    ELSE [g EXCEPT !.pc = "results"]

\* future.result of sync_input / sync_confirm: the next item of the queue
\* is returned to the game thread, which goes on in prompt_allocation or
\* in run_game; what prompt_allocation prints stays in the buffer
TakeInput ==
    /\ game.pc = "waiting"
    /\ bridge.input_queue # <<>>
    /\ LET raw == Head(bridge.input_queue)
           got == [game EXCEPT !.inputs = Append(@, raw), !.pc = "prompt"]
           after == CASE game.call = "sector" -> AfterSector(got, raw)
                      [] game.call = "confirm" -> AfterConfirm(got, raw)
                      [] game.call = "revise" -> AfterRevise(got, raw)
           prints == game.call = "sector"
           b == [bridge EXCEPT !.input_queue = Tail(@)]
       IN IF prints
          THEN /\ bridge' = Printed(b, after).bridge
               /\ game' = Printed(b, after).game
          ELSE /\ bridge' = b
               /\ game' = after
    /\ UNCHANGED <<allocVars, macroVars, eventVars, returnVars, riskVars,
                   shortVars, rivalVars, scoreVars, careerVars, marketVars,
                   weekVars, sessionVars, client, pc, rngLog>>

\* future.result(timeout=600) / (timeout=300): nothing arrived in time
InputTimeout ==
    /\ game.pc = "waiting"
    /\ bridge.input_queue = <<>>
    /\ game' = [game EXCEPT !.pc = "raised", !.raised = "TimeoutError"]
    /\ UNCHANGED <<allocVars, macroVars, eventVars, returnVars, riskVars,
                   shortVars, rivalVars, scoreVars, careerVars, marketVars,
                   weekVars, sessionVars, bridge, client, pc, rngLog>>

\* run_game lines 155-163: the risk assessment is shown and flushed; a
\* score of 7 or more asks whether to revise
AssessRisk ==
    /\ game.pc = "risk"
    /\ LET p == Printed(bridge, game)
       IN \E outcome \in FlushOutcomes(p.bridge.output_buffer,
                                       client.connected),
             high \in BOOLEAN :
           LET f == Flushed(p.bridge, client, p.game, outcome)
           IN /\ bridge' = f.bridge
              /\ client' = f.client
              /\ game' = IF f.game.pc = "raised" THEN f.game
                         ELSE IF high
                         THEN [f.game EXCEPT !.pc = "prompt",
                                             !.call = "revise",
                                             !.revised = TRUE]
                         ELSE [f.game EXCEPT !.pc = "results"]
    /\ UNCHANGED <<allocVars, macroVars, eventVars, returnVars, riskVars,
                   shortVars, rivalVars, scoreVars, careerVars, marketVars,
                   weekVars, sessionVars, pc, rngLog>>

\* run_game lines 166-237 and 116-152: the rest of the week is shown and
\* flushed; the next week starts with prompt_allocation, or the season ends
FinishWeek ==
    /\ game.pc = "results"
    /\ LET p == Printed(bridge, game)
       IN \E outcome \in FlushOutcomes(p.bridge.output_buffer,
                                       client.connected) :
           LET f == Flushed(p.bridge, client, p.game, outcome)
           IN /\ bridge' = f.bridge
              /\ client' = f.client
              /\ game' = IF f.game.pc = "raised" THEN f.game
                         ELSE IF game.week >= BridgeWeeks
                         THEN [f.game EXCEPT !.pc = "returned"]
                         ELSE [f.game EXCEPT !.pc = "prompt",
                                             !.call = "sector", !.i = 0,
                                             !.revised = FALSE,
                                             !.week = @ + 1]
    /\ UNCHANGED <<allocVars, macroVars, eventVars, returnVars, riskVars,
                   shortVars, rivalVars, scoreVars, careerVars, marketVars,
                   weekVars, sessionVars, pc, rngLog>>

\* play_game_ws lines 145-162: run_game is over; the last output is
\* flushed when it returned, an exception is logged; both tasks are
\* cancelled
EndpointFinally ==
    /\ game.pc \in {"returned", "raised"}
    /\ bridge.endpoint = "running"
    /\ \E outcome \in IF game.pc = "returned"
                      THEN FlushOutcomes(bridge.output_buffer,
                                         client.connected)
                      ELSE {"none"} :
           LET f == Flushed(bridge, client, game, outcome)
               cancel(task) == IF task = "running" THEN "cancelled"
                               ELSE task
           IN /\ bridge' = [f.bridge EXCEPT
                               !.endpoint = "closed",
                               !.keepalive_task = cancel(@),
                               !.recv_task = cancel(@)]
              /\ client' = f.client
              /\ game' = [f.game EXCEPT !.pc = game.pc,
                                        !.raised = game.raised]
    /\ UNCHANGED <<allocVars, macroVars, eventVars, returnVars, riskVars,
                   shortVars, rivalVars, scoreVars, careerVars, marketVars,
                   weekVars, sessionVars, pc, rngLog>>

NextBridge ==
    \/ BrowserSend
    \/ BrowserDisconnect
    \/ ReceiveLoop
    \/ KeepalivePing
    \/ RequestInput
    \/ TakeInput
    \/ InputTimeout
    \/ AssessRisk
    \/ FinishWeek
    \/ EndpointFinally

\* The event loop runs its tasks, the game thread runs, and the timeouts of
\* future.result expire.
SpecBridge ==
    /\ InitBridge
    /\ [][NextBridge]_vars
    /\ WF_vars(ReceiveLoop)
    /\ WF_vars(RequestInput)
    /\ WF_vars(TakeInput)
    /\ WF_vars(InputTimeout)
    /\ WF_vars(AssessRisk)
    /\ WF_vars(FinishWeek)
    /\ WF_vars(EndpointFinally)

\* The game thread is over.
GameOver == game.pc \in {"returned", "raised"}

\* Items handed to the queue so far, read or not
Enqueued == game.inputs \o bridge.input_queue

\* The non-empty texts reach the game thread in the order of arrival,
\* nothing else does but one sentinel, put when the receive loop ends on
\* the disconnect.
DeliveredInOrder ==
    LET texts == SelectSeq(client.sent, NonEmptyText)
    IN IF bridge.recv_task = "done"
       THEN /\ ~client.connected
            /\ Enqueued = Append(texts, "")
       ELSE IsPrefix(Enqueued, texts)

\* When the game thread starts waiting, the buffer is empty and everything
\* printed so far was sent; nothing is lost while the browser is connected.
FlushedBeforeWaiting ==
    /\ game.pc = "waiting" =>
           /\ bridge.output_buffer = <<>>
           /\ Len(client.output) + game.lost = game.printed
           /\ game.lost = 0 =>
                  client.output = [k \in 1..game.printed |-> k]
    /\ \A k \in 1..Len(client.output) :
           k > 1 => client.output[k] > client.output[k - 1]
    /\ client.connected => game.lost = 0

\* The endpoint cancels its tasks after the game thread is over.
TasksCancelledAfterGame ==
    bridge.endpoint = "closed" =>
        /\ GameOver
        /\ bridge.recv_task # "running"
        /\ bridge.keepalive_task # "running"

\* C24: after a disconnect the receive loop enqueues one empty sentinel, a
\* blocked sync_input or sync_confirm returns, the game thread comes to an
\* end instead of waiting forever, and the endpoint then cancels its
\* receive and keepalive tasks; non-empty messages reach the game thread
\* in arrival order; the output buffered before an input request is sent
\* before the game thread starts waiting.
C24_DisconnectEndsGame ==
    /\ [](DeliveredInOrder /\ FlushedBeforeWaiting /\ TasksCancelledAfterGame)
    /\ (~client.connected) ~>
           (GameOver /\ bridge.endpoint = "closed"
                /\ bridge.recv_task # "running"
                /\ bridge.keepalive_task # "running")
    /\ (~client.connected /\ game.pc = "waiting") ~> (game.pc # "waiting")

\* C24 witness: the browser left while the game thread waited for a sector
\* other than the last; the sentinel was the last thing the thread read,
\* the thread is over, the endpoint closed and both tasks stopped.
C24_Witness ==
    /\ ~client.connected
    /\ bridge.recv_task = "done"
    /\ game.inputs # <<>>
    /\ game.inputs[Len(game.inputs)] = ""
    /\ game.call = "sector"
    /\ game.i < Len(SECTOR_ORDER) - 1
    /\ game.pc = "raised"
    /\ bridge.endpoint = "closed"
    /\ bridge.keepalive_task # "running"

\* C24, the sentinel taken for an answer: read at "Confirm?", the empty
\* string confirms the allocation, the week is played to its end after the
\* browser left, and the season with it.
C24_WitnessSentinelConfirms ==
    /\ ~client.connected
    /\ game.inputs # <<>>
    /\ game.inputs[Len(game.inputs)] = ""
    /\ game.pc = "returned"
    /\ bridge.endpoint = "closed"

=============================================================================
